---- MODULE Spec2Model ----
(***************************************************************************)
(* TradeTracker: the position reconciler (backend/src/services/            *)
(* positionService.js) over the SQLite tables accounts, trades, positions  *)
(* and position_trades (backend/src/db/schema.js), together with the       *)
(* operations of tradeService.js / accountService.js that delete or        *)
(* insert trades.                                                          *)
(*                                                                         *)
(* Tables are modelled as the relations they are:                          *)
(*   accounts         id -> broker                                         *)
(*   trades           id -> row                                            *)
(*   positions        id -> row                                            *)
(*   position_trades  set of <<position_id, trade_id>> rows                *)
(*   seq              sqlite_sequence (AUTOINCREMENT high-water marks)     *)
(* The connection runs with PRAGMA foreign_keys = ON, so deleting a        *)
(* position or a trade cascades to position_trades, and inserting a        *)
(* position_trades row whose position or trade is missing throws.          *)
(***************************************************************************)
EXTENDS Integers, Sequences, FiniteSets, TLC

\* SQL NULL / JavaScript null in a text column
NULL == "null"
\* SQL NULL in trades.expiration_date (dates are day numbers >= 1)
NoDate == 0

(* Bounds *)

\* number of distinct broker executions that import files can contain
NumExec == 3
\* cap on trades.id (AUTOINCREMENT keeps growing in the program)
MaxTradeId == 3
\* cap on positions.id (AUTOINCREMENT keeps growing in the program)
MaxPosId == 5
\* cap on accounts.id
MaxAccountId == 2
\* longest list of trade ids / position ids passed to one call
MaxList == 2
\* number of requests served in one run
MaxRequests == 3

Brokers == {"robinhood", "webull"}
Names == {"Spread"}
\* the day the option contract of the catalogue expires
ExpirationDay == 1
\* the clock shows the expiration day or the day after
Days == {ExpirationDay, ExpirationDay + 1}

(* The normalized Trade records that parsed files contain.  Execution b is  *)
(* one line of a broker statement; its broker_trade_id is b.               *)

ExecPattern(b) == ((b - 1) % 6) + 1
ExecRound(b) == (b - 1) \div 6

Exec(b) ==
    LET p == ExecPattern(b)
        r == ExecRound(b)
    IN [ broker_trade_id |-> b,
         broker          |-> IF p = 4 THEN "webull" ELSE "robinhood",
         symbol          |-> IF p \in {1, 3} THEN "SPX260107C05000000" ELSE "AAPL",
         asset_type      |-> IF p \in {1, 3} THEN "option" ELSE "stock",
         side            |-> IF p \in {3, 4, 6} THEN "sell" ELSE "buy",
         quantity        |-> IF p \in {5, 6} THEN 2 ELSE 1,
         executed_at     |-> 3 * r + (CASE p = 1 -> 1 [] p = 2 -> 1 [] p = 3 -> 2
                                        [] p = 4 -> 2 [] p = 5 -> 3 [] OTHER -> 3),
         expiration_date |-> IF p \in {1, 3} THEN ExpirationDay ELSE NoDate ]

Execs == 1..NumExec

(* Small helpers on sequences and sets *)

Range(s) == {s[i] : i \in 1..Len(s)}

RECURSIVE SetToSeq(_)
SetToSeq(S) ==
    IF S = {} THEN <<>>
    ELSE LET m == CHOOSE x \in S : \A y \in S : x <= y
         IN <<m>> \o SetToSeq(S \ {m})

\* the lists of 1..n different ids of S in ascending order (request bodies)
ListsOf(S, n) == {SetToSeq(X) : X \in {Y \in SUBSET S : Y # {} /\ Cardinality(Y) <= n}}

Max(S) == CHOOSE x \in S : \A y \in S : y <= x

\* a table without rows
EmptyTable == [x \in {} |-> NULL]


(* ------------------------------------------------------------------ *)
(* computeRoundTrips: the Round-Trip Segmenter                         *)
(* ------------------------------------------------------------------ *)

SideRank(side) == IF side = "buy" THEN 0 ELSE 1

\* ORDER BY t.executed_at ASC, CASE WHEN t.side = 'buy' THEN 0 ELSE 1 END ASC
\* (rows equal on both columns come back in rowid order)
TradeBefore(tr, a, b) ==
    \/ tr[a].executed_at < tr[b].executed_at
    \/ /\ tr[a].executed_at = tr[b].executed_at
       /\ \/ SideRank(tr[a].side) < SideRank(tr[b].side)
          \/ /\ SideRank(tr[a].side) = SideRank(tr[b].side)
             /\ a < b

RECURSIVE OrderedTrades(_, _)
OrderedTrades(tr, S) ==
    IF S = {} THEN <<>>
    ELSE LET m == CHOOSE x \in S : \A y \in S \ {x} : TradeBefore(tr, x, y)
         IN <<m>> \o OrderedTrades(tr, S \ {m})

\* a key that leaves the account out
TradeKey_NoAccount(tr, id) == <<tr[id].symbol, tr[id].asset_type>>

\* `${trade.symbol}_${trade.asset_type}_${trade.account_id}`
TradeKey(tr, id) == <<tr[id].symbol, tr[id].asset_type, tr[id].account_id>>

\* Object.keys(tradesByKey): keys in order of first appearance
RECURSIVE KeysInOrder(_, _)
KeysInOrder(tr, ids) ==
    IF ids = <<>> THEN <<>>
    ELSE LET init == KeysInOrder(tr, SubSeq(ids, 1, Len(ids) - 1))
             k == TradeKey(tr, ids[Len(ids)])
         IN IF \E i \in 1..Len(init) : init[i] = k THEN init ELSE Append(init, k)

\* a new currentTrip that starts with a bought quantity already counted
EmptyTrip_Stale == [tradeIds |-> <<>>, buyQty |-> 1, sellQty |-> 0]

\* currentTrip = { tradeIds: [], buyQty: 0, sellQty: 0 }
EmptyTrip == [tradeIds |-> <<>>, buyQty |-> 0, sellQty |-> 0]

\* status of a balanced round trip
BalancedStatus(tr, asset_type, tripIds) ==
    IF asset_type = "option" /\ \E i \in 1..Len(tripIds) : tr[tripIds[i]].expired_worthless
    THEN "expired" ELSE "closed"

\* status of the trailing unbalanced round trip
TrailingStatus(tr, asset_type, symbolTrades, tripIds, now) ==
    LET expDate == tr[symbolTrades[1]].expiration_date
    IN IF asset_type = "option" /\ expDate # NoDate
       THEN IF \E i \in 1..Len(tripIds) : tr[tripIds[i]].expired_worthless
            THEN "expired"
            ELSE IF expDate < now THEN "pending_expiry" ELSE "open"
       ELSE "open"

\* the loop over one key's trades, from index i on, with currentTrip = cur
RECURSIVE SegmentKey(_, _, _, _, _, _)
SegmentKey(tr, symbolTrades, i, cur, now, out) ==
    LET asset_type == tr[symbolTrades[1]].asset_type
    IN IF i > Len(symbolTrades)
       THEN IF Len(cur.tradeIds) > 0
            THEN Append(out, [tradeIds |-> cur.tradeIds,
                              status |-> TrailingStatus(tr, asset_type, symbolTrades,
                                                        cur.tradeIds, now)])
            ELSE out
       ELSE LET t == symbolTrades[i]
                c1 == [tradeIds |-> Append(cur.tradeIds, t),
                       buyQty |-> cur.buyQty +
                                  (IF tr[t].side = "buy" THEN tr[t].quantity ELSE 0),
                       sellQty |-> cur.sellQty +
                                   (IF tr[t].side = "buy" THEN 0 ELSE tr[t].quantity)]
            IN IF c1.buyQty = c1.sellQty /\ c1.buyQty > 0
               THEN SegmentKey(tr, symbolTrades, i + 1, EmptyTrip, now,
                               Append(out, [tradeIds |-> c1.tradeIds,
                                            status |-> BalancedStatus(tr, asset_type,
                                                                      c1.tradeIds)]))
               ELSE SegmentKey(tr, symbolTrades, i + 1, c1, now, out)

RECURSIVE SegmentKeys(_, _, _, _, _)
SegmentKeys(tr, ids, keys, k, now) ==
    IF k > Len(keys) THEN <<>>
    ELSE SegmentKey(tr, SelectSeq(ids, LAMBDA t : TradeKey(tr, t) = keys[k]),
                    1, EmptyTrip, now, <<>>)
         \o SegmentKeys(tr, ids, keys, k + 1, now)

\* computeRoundTrips(trades): ids is the list of trades in the order given,
\* the result is the list of { tradeIds, status }
computeRoundTrips(tr, ids, now) == SegmentKeys(tr, ids, KeysInOrder(tr, ids), 1, now)

(* ------------------------------------------------------------------ *)
(* The positions / position_trades tables.  A value db is the record   *)
(* [positions, position_trades, seq] of the two tables and the         *)
(* sqlite_sequence entry of positions; tr is the trades table.         *)
(* ------------------------------------------------------------------ *)

\* position_trades rows are <<position_id, trade_id>>
TradesOf(pt, p) == {r[2] : r \in {x \in pt : x[1] = p}}
OwnersOf(pt, t) == {r[1] : r \in {x \in pt : x[2] = t}}
LinkedTrades(pt) == {r[2] : r \in pt}

\* DELETE FROM positions WHERE id IN (ids), with
\* position_trades.position_id ... ON DELETE CASCADE
DeletePositionRows(db, ids) ==
    [db EXCEPT !.positions = [p \in (DOMAIN db.positions) \ ids |-> db.positions[p]],
               !.position_trades = {r \in db.position_trades : r[1] \notin ids}]

\* INTEGER PRIMARY KEY AUTOINCREMENT: one more than the largest id ever used
NextPositionId(db) == Max({db.seq} \cup DOMAIN db.positions) + 1

\* INSERT INTO positions (...) VALUES (...)
InsertPositionRow(db, row) ==
    LET id == NextPositionId(db)
    IN [db EXCEPT !.positions = [p \in (DOMAIN db.positions) \cup {id} |->
                                    IF p = id THEN row ELSE db.positions[p]],
                  !.seq = id]

\* position_trades declared without UNIQUE(trade_id)
UniqueTradeConflict_Off(pt, t) == FALSE

\* UNIQUE(trade_id) of position_trades
UniqueTradeConflict(pt, t) == \E r \in pt : r[2] = t

\* INSERT OR IGNORE INTO position_trades (position_id, trade_id) VALUES (p, t):
\* a UNIQUE(trade_id) conflict skips the row, a missing parent row throws
InsertPositionTrade(db, tr, p, t) ==
    IF UniqueTradeConflict(db.position_trades, t)
    THEN [db |-> db, threw |-> FALSE, changes |-> 0]
    ELSE IF p \notin DOMAIN db.positions \/ t \notin DOMAIN tr
         THEN [db |-> db, threw |-> TRUE, changes |-> 0]
         ELSE [db |-> [db EXCEPT !.position_trades = @ \cup {<<p, t>>}],
               threw |-> FALSE, changes |-> 1]

\* for (const tradeId of tradeIds) insert.run(positionId, tradeId), from index i;
\* a throw leaves the rows inserted so far in place (no transaction is open)
RECURSIVE InsertPositionTrades(_, _, _, _, _, _)
InsertPositionTrades(db, tr, p, tradeIds, i, added) ==
    IF i > Len(tradeIds) THEN [db |-> db, threw |-> FALSE, added |-> added]
    ELSE LET r == InsertPositionTrade(db, tr, p, tradeIds[i])
         IN IF r.threw THEN [db |-> r.db, threw |-> TRUE, added |-> added]
            ELSE InsertPositionTrades(r.db, tr, p, tradeIds, i + 1, added + r.changes)

\* the detach step without the DELETE of the positions it emptied
DetachTrades_KeepEmptied(db, tradeIds, keep) ==
    [db EXCEPT !.position_trades = {r \in @ : r[2] \notin Range(tradeIds)}]

\* createPosition / addTradesToPosition, first half: remove the links of
\* tradeIds and delete every position they leave without a link, except keep
DetachTrades(db, tradeIds, keep) ==
    LET ids == Range(tradeIds)
        affectedPositionIds == {r[1] : r \in {x \in db.position_trades : x[2] \in ids}}
        pt1 == {r \in db.position_trades : r[2] \notin ids}
        orphaned == {p \in affectedPositionIds \ keep : TradesOf(pt1, p) = {}}
    IN IF tradeIds = <<>> THEN db
       ELSE DeletePositionRows([db EXCEPT !.position_trades = pt1], orphaned)

\* createPosition(name, tradeIds, notes)
createPosition(db, tr, name, tradeIds, notes) ==
    LET d1 == DetachTrades(db, tradeIds, {})
        d2 == InsertPositionRow(d1, [name |-> name, notes |-> notes, why |-> NULL,
                                     status |-> "open"])
        positionId == d2.seq
        r == InsertPositionTrades(d2, tr, positionId, tradeIds, 1, 0)
    IN [db |-> r.db, threw |-> r.threw, id |-> positionId]

\* addTradesToPosition(positionId, tradeIds)
addTradesToPosition(db, tr, positionId, tradeIds) ==
    LET d1 == DetachTrades(db, tradeIds, {positionId})
    IN InsertPositionTrades(d1, tr, positionId, tradeIds, 1, 0)

\* removeTradesFromPosition(positionId, tradeIds)
removeTradesFromPosition(db, positionId, tradeIds) ==
    LET gone == {r \in db.position_trades : r[1] = positionId /\ r[2] \in Range(tradeIds)}
    IN [db |-> [db EXCEPT !.position_trades = @ \ gone], removed |-> Cardinality(gone)]

\* deletePosition(id)
deletePosition(db, id) ==
    [db |-> DeletePositionRows(db, {id}), found |-> id \in DOMAIN db.positions]

\* for (const rt of roundTrips) { insertPosition.run(null, rt.status); ... insertPT.run(posId, tid) }
RECURSIVE PersistRoundTrips(_, _, _, _)
PersistRoundTrips(db, tr, roundTrips, k) ==
    IF k > Len(roundTrips) THEN db
    ELSE LET d1 == InsertPositionRow(db, [name |-> NULL, notes |-> NULL, why |-> NULL,
                                          status |-> roundTrips[k].status])
             r == InsertPositionTrades(d1, tr, d1.seq, roundTrips[k].tradeIds, 1, 0)
         IN PersistRoundTrips(r.db, tr, roundTrips, k + 1)

\* ungroupPosition without the DELETE of the original position
ungroupPosition_KeepPosition(db, tr, id, now) ==
    LET tradeIds == TradesOf(db.position_trades, id)
        roundTrips == computeRoundTrips(tr, OrderedTrades(tr, tradeIds), now)
    IN [db |-> PersistRoundTrips(db, tr, roundTrips, 1), created |-> Len(roundTrips)]

\* ungroupPosition(id)
ungroupPosition(db, tr, id, now) ==
    LET tradeIds == TradesOf(db.position_trades, id)
        roundTrips == computeRoundTrips(tr, OrderedTrades(tr, tradeIds), now)
    IN IF tradeIds = {}
       THEN [db |-> deletePosition(db, id).db, created |-> 0]
       ELSE [db |-> PersistRoundTrips(DeletePositionRows(db, {id}), tr, roundTrips, 1),
             created |-> Len(roundTrips)]

\* mergePositions collecting the trades of the first position only
mergePositions_FirstOnly(db, tr, positionIds, newName) ==
    LET tradeIds == SetToSeq(TradesOf(db.position_trades, positionIds[1]))
        newPosition == createPosition(db, tr, newName, tradeIds, "")
    IN [db |-> DeletePositionRows(newPosition.db, Range(positionIds)),
        threw |-> newPosition.threw, id |-> newPosition.id]

\* mergePositions(positionIds, newName)
mergePositions(db, tr, positionIds, newName) ==
    LET tradeIds == SetToSeq({r[2] : r \in {x \in db.position_trades :
                                               x[1] \in Range(positionIds)}})
        newPosition == createPosition(db, tr, newName, tradeIds, "")
    IN [db |-> DeletePositionRows(newPosition.db, Range(positionIds)),
        threw |-> newPosition.threw, id |-> newPosition.id]

\* the trades of named positions not excluded from the segmentation
NamedPositionTradeIds_None(db) == {}

\* SELECT pt.trade_id FROM position_trades pt JOIN positions p ... WHERE p.name IS NOT NULL
NamedPositionTradeIds(db) ==
    {r[2] : r \in {x \in db.position_trades :
                      x[1] \in DOMAIN db.positions /\ db.positions[x[1]].name # NULL}}

\* computeAndPersistAllPositions(excludeTradeIds)
computeAndPersistAllPositions(db, tr, excludeTradeIds, now) ==
    LET trades == OrderedTrades(tr, (DOMAIN tr) \ excludeTradeIds)
        roundTrips == computeRoundTrips(tr, trades, now)
    IN IF trades = <<>> THEN [db |-> db, created |-> 0]
       ELSE [db |-> PersistRoundTrips(db, tr, roundTrips, 1), created |-> Len(roundTrips)]

\* SELECT id FROM positions without the WHERE name IS NULL
SimplePositionIds_All(db) == DOMAIN db.positions

\* SELECT id FROM positions WHERE name IS NULL
SimplePositionIds(db) == {p \in DOMAIN db.positions : db.positions[p].name = NULL}

\* recomputeAllPositions excluding every trade that had an owner before the
\* DELETE of the simple positions
recomputeAllPositions_StaleClaims(db, tr, now) ==
    LET d1 == DeletePositionRows(db, SimplePositionIds(db))
    IN computeAndPersistAllPositions(d1, tr, LinkedTrades(db.position_trades), now)

\* recomputeAllPositions without the DELETE of the unnamed positions
recomputeAllPositions_KeepOld(db, tr, now) ==
    computeAndPersistAllPositions(db, tr, NamedPositionTradeIds(db), now)

\* recomputeAllPositions()
recomputeAllPositions(db, tr, now) ==
    LET d1 == DeletePositionRows(db, SimplePositionIds(db))
    IN computeAndPersistAllPositions(d1, tr, NamedPositionTradeIds(d1), now)

\* recomputePositionsAfterImport: the unnamed positions one of whose trades
\* has a key of an imported trade
PositionsToRecompute(db, tr, symbolKeys) ==
    {p \in SimplePositionIds(db) :
        \E t \in TradesOf(db.position_trades, p) : TradeKey(tr, t) \in symbolKeys}

\* recomputePositionsAfterImport(importedTradeIds)
recomputePositionsAfterImport(db, tr, importedTradeIds, now) ==
    LET symbolKeys == {TradeKey(tr, t) : t \in importedTradeIds \cap DOMAIN tr}
        positionsToRecompute == PositionsToRecompute(db, tr, symbolKeys)
        \* branch "no existing positions to recompute"
        unclaimedImported == (importedTradeIds \cap DOMAIN tr) \ NamedPositionTradeIds(db)
        roundTrips1 == computeRoundTrips(tr, OrderedTrades(tr, unclaimedImported), now)
        \* branch "delete old simple positions and recompute"
        d1 == DeletePositionRows(db, positionsToRecompute)
        tradesForRecompute == {t \in DOMAIN tr : TradeKey(tr, t) \in symbolKeys}
        unclaimedTrades == tradesForRecompute \ NamedPositionTradeIds(d1)
        roundTrips2 == computeRoundTrips(tr, OrderedTrades(tr, unclaimedTrades), now)
    IN IF importedTradeIds = {} \/ symbolKeys = {}
       THEN [db |-> db, recomputed |-> 0]
       ELSE IF positionsToRecompute = {}
            THEN IF unclaimedImported = {}
                 THEN [db |-> db, recomputed |-> 0]
                 ELSE [db |-> PersistRoundTrips(db, tr, roundTrips1, 1),
                       recomputed |-> Len(roundTrips1)]
            ELSE [db |-> PersistRoundTrips(d1, tr, roundTrips2, 1),
                  recomputed |-> Len(roundTrips2)]

(* ------------------------------------------------------------------ *)
(* trades and accounts                                                 *)
(* ------------------------------------------------------------------ *)

\* getOrCreateAccount(broker): the account of that broker, created when missing
ExistingAccount(acc, broker) == {a \in DOMAIN acc : acc[a] = broker}

getOrCreateAccount(acc, accSeq, broker) ==
    IF ExistingAccount(acc, broker) # {}
    THEN [accounts |-> acc, seq |-> accSeq,
          id |-> CHOOSE a \in ExistingAccount(acc, broker) :
                    \A b \in ExistingAccount(acc, broker) : a <= b]
    ELSE LET id == Max({accSeq} \cup DOMAIN acc) + 1
         IN [accounts |-> [a \in (DOMAIN acc) \cup {id} |->
                              IF a = id THEN broker ELSE acc[a]],
             seq |-> id, id |-> id]

\* trades.import_id: NULL, or the id of a row of imports.  Rows of imports are
\* written by logImport and read back only through this reference, so the
\* model keeps of the id whether it is NULL
NoImport == 0
ImportRef == 1

\* the row that insertTrades writes for execution b (review takes its DEFAULT 0)
TradeRow(accountId, b) ==
    [account_id |-> accountId, broker_trade_id |-> b,
     symbol |-> Exec(b).symbol, asset_type |-> Exec(b).asset_type,
     side |-> Exec(b).side, quantity |-> Exec(b).quantity,
     executed_at |-> Exec(b).executed_at,
     expiration_date |-> Exec(b).expiration_date,
     review |-> 0, expired_worthless |-> FALSE, import_id |-> ImportRef]

\* trades declared without UNIQUE(account_id, broker_trade_id)
UniqueBrokerTradeConflict_Off(tr, row) == FALSE

\* UNIQUE(account_id, broker_trade_id) of trades
UniqueBrokerTradeConflict(tr, row) ==
    \E t \in DOMAIN tr : tr[t].account_id = row.account_id
                         /\ tr[t].broker_trade_id = row.broker_trade_id

\* insertTrades(accountId, trades): INSERT OR IGNORE each row, from index i;
\* st = [trades, seq, imported (set of new ids), skipped]
RECURSIVE insertTrades(_, _, _, _)
insertTrades(st, accountId, execs, i) ==
    IF i > Len(execs) THEN st
    ELSE LET row == TradeRow(accountId, execs[i])
             id == Max({st.seq} \cup DOMAIN st.trades) + 1
         IN IF UniqueBrokerTradeConflict(st.trades, row)
            THEN insertTrades([st EXCEPT !.skipped = @ + 1], accountId, execs, i + 1)
            ELSE insertTrades([trades |-> [t \in (DOMAIN st.trades) \cup {id} |->
                                              IF t = id THEN row ELSE st.trades[t]],
                               seq |-> id,
                               imported |-> st.imported \cup {id},
                               skipped |-> st.skipped],
                              accountId, execs, i + 1)

\* DELETE FROM trades WHERE id IN (ids), with
\* position_trades.trade_id ... ON DELETE CASCADE
DeleteTradeRows(tr, ids) == [t \in (DOMAIN tr) \ ids |-> tr[t]]
CascadeTradeDelete(pt, ids) == {r \in pt : r[2] \notin ids}

\* updatePosition(id, { name, notes, why }): an undefined field is left alone
UNDEF == "undefined"

updatePosition(db, id, body) ==
    LET row == db.positions[id]
        new == [row EXCEPT !.name = IF body.name = UNDEF THEN @ ELSE body.name,
                           !.notes = IF body.notes = UNDEF THEN @ ELSE body.notes,
                           !.why = IF body.why = UNDEF THEN @ ELSE body.why]
        noUpdates == body.name = UNDEF /\ body.notes = UNDEF /\ body.why = UNDEF
    IN IF noUpdates THEN [db |-> db, result |-> "null"]
       ELSE IF id \notin DOMAIN db.positions THEN [db |-> db, result |-> "false"]
            ELSE [db |-> [db EXCEPT !.positions[id] = new], result |-> "true"]

(* ------------------------------------------------------------------ *)
(* Backup: exportAllData / importBackup (version 2 documents).  A      *)
(* whole database is the record all = [accounts, accountSeq, trades,   *)
(* tradeSeq, positions, position_trades, positionSeq].                 *)
(* ------------------------------------------------------------------ *)

\* exportAllData(): SELECT * of every table; positionTrades is a list of rows
exportAllData(all) ==
    [accounts |-> all.accounts, trades |-> all.trades, positions |-> all.positions,
     positionTrades |-> SetToSeq({r[1] * 100 + r[2] : r \in all.position_trades})]

\* a positionTrades entry of a backup document: position_id * 100 + trade_id
BackupRow(p, t) == p * 100 + t
RowPosition(e) == e \div 100
RowTrade(e) == e % 100

\* INSERT INTO position_trades (position_id, trade_id) VALUES (?, ?) for each
\* entry from index i: a UNIQUE(trade_id) conflict or a missing parent throws
RECURSIVE RestorePositionTrades(_, _, _)
RestorePositionTrades(all, rows, i) ==
    IF i > Len(rows) THEN [all |-> all, threw |-> FALSE]
    ELSE LET p == RowPosition(rows[i])
             t == RowTrade(rows[i])
         IN IF \/ UniqueTradeConflict(all.position_trades, t)
               \/ p \notin DOMAIN all.positions
               \/ t \notin DOMAIN all.trades
            THEN [all |-> all, threw |-> TRUE]
            ELSE RestorePositionTrades(
                     [all EXCEPT !.position_trades = @ \cup {<<p, t>>}], rows, i + 1)

\* trade.review || 0
OrZero(v) == IF v = 0 THEN 0 ELSE v

\* the row that insertTrade.run(...) of importBackup writes: the columns of
\* the INSERT, review through || 0, and import_id left to its default NULL
RestoredTrade(trade) ==
    [trade EXCEPT !.review = OrZero(@),
                  !.expired_worthless = (@ = TRUE),
                  !.import_id = NoImport]

\* the body of importBackup's transaction: clear every table and the
\* AUTOINCREMENT counters, then insert the rows of the document with their ids.
\* DELETE FROM imports runs while the rows of trades are still there: with
\* foreign_keys = ON it throws when a trade references a row of imports
RestoreBody(all, backup) ==
    LET importReferenced == \E t \in DOMAIN all.trades :
                               all.trades[t].import_id # NoImport
        accountFk == \A t \in DOMAIN backup.trades :
                        backup.trades[t].account_id \in DOMAIN backup.accounts
        brokerIdUnique == \A t, u \in DOMAIN backup.trades :
                             (t # u /\ backup.trades[t].account_id = backup.trades[u].account_id)
                             => backup.trades[t].broker_trade_id # backup.trades[u].broker_trade_id
        noLinks == [all EXCEPT !.positions = EmptyTable, !.position_trades = {}]
        cleared == [accounts |-> backup.accounts,
                    accountSeq |-> Max({0} \cup DOMAIN backup.accounts),
                    trades |-> EmptyTable, tradeSeq |-> 0,
                    positions |-> EmptyTable, position_trades |-> {}, positionSeq |-> 0]
        withTrades == [cleared EXCEPT !.trades = [t \in DOMAIN backup.trades |->
                                                    RestoredTrade(backup.trades[t])],
                                      !.tradeSeq = Max({0} \cup DOMAIN backup.trades)]
        withPositions == [withTrades EXCEPT !.positions = backup.positions,
                                            !.positionSeq = Max({0} \cup DOMAIN backup.positions)]
    IN IF importReferenced THEN [all |-> noLinks, threw |-> TRUE]
       ELSE IF ~(accountFk /\ brokerIdUnique) THEN [all |-> cleared, threw |-> TRUE]
       ELSE RestorePositionTrades(withPositions, backup.positionTrades, 1)

\* a helper that only rethrows: what fn wrote before it threw stays
withTransaction_NoRollback(before, r) == r.all

\* withTransaction(db, fn): BEGIN; fn(); COMMIT, or ROLLBACK when fn throws
withTransaction(before, r) == IF r.threw THEN before ELSE r.all

\* importBackup(backup)
importBackup(all, backup) ==
    [all |-> withTransaction(all, RestoreBody(all, backup)),
     threw |-> RestoreBody(all, backup).threw]

(* ------------------------------------------------------------------ *)
(* State                                                               *)
(* ------------------------------------------------------------------ *)

VARIABLES accounts, accountSeq, trades, tradeSeq, positions, position_trades,
          positionSeq, today, ret, requests,
          input, output     \* argument and result of a pure function under study

vars == <<accounts, accountSeq, trades, tradeSeq, positions, position_trades,
          positionSeq, today, ret, requests, input, output>>

tradeVars == <<accounts, accountSeq, trades, tradeSeq>>

DB == [positions |-> positions, position_trades |-> position_trades, seq |-> positionSeq]

SetDB(d) ==
    /\ positions' = d.positions
    /\ position_trades' = d.position_trades
    /\ positionSeq' = d.seq

\* one more request has been served (requests are served one at a time)
Served ==
    /\ requests < MaxRequests
    /\ requests' = requests + 1
    /\ UNCHANGED <<input, output>>


\* a fresh database file: schema created, every table empty
Init ==
    /\ accounts = EmptyTable
    /\ accountSeq = 0
    /\ trades = EmptyTable
    /\ tradeSeq = 0
    /\ positions = EmptyTable
    /\ position_trades = {}
    /\ positionSeq = 0
    /\ today \in Days
    /\ ret = [op |-> "init", ok |-> TRUE, val |-> 0]
    /\ requests = 0
    /\ input = <<>>
    /\ output = <<>>

\* the ids a request can name: those of existing rows and one id without a row
TradeIds == (DOMAIN trades) \cup {tradeSeq + 1}
PositionIds == (DOMAIN positions) \cup {positionSeq + 1}
AccountIds == (DOMAIN accounts) \cup {accountSeq + 1}
TradeIdLists == ListsOf(TradeIds, MaxList)
PositionIdLists == ListsOf(PositionIds, MaxList)

\* the files a user can upload: some executions of one broker
Files ==
    {[broker |-> b, execs |-> SetToSeq(S)] :
        b \in Brokers,
        S \in {X \in SUBSET Execs : X # {} /\ Cardinality(X) <= MaxList}}

FileOk(f) == \A i \in 1..Len(f.execs) : Exec(f.execs[i]).broker = f.broker

(* ------------------------------------------------------------------ *)
(* Operations (one request each)                                       *)
(* ------------------------------------------------------------------ *)

\* POST /api/import/csv -> importCsv
ImportCsv(f) ==
    LET account == getOrCreateAccount(accounts, accountSeq, f.broker)
        st == insertTrades([trades |-> trades, seq |-> tradeSeq, imported |-> {},
                            skipped |-> 0], account.id, f.execs, 1)
        r == recomputePositionsAfterImport(DB, st.trades, st.imported, today)
    IN /\ Served
       /\ FileOk(f)
       /\ account.id <= MaxAccountId
       /\ st.seq <= MaxTradeId
       /\ r.db.seq <= MaxPosId
       /\ accounts' = account.accounts
       /\ accountSeq' = account.seq
       /\ trades' = st.trades
       /\ tradeSeq' = st.seq
       /\ IF Cardinality(st.imported) > 0 THEN SetDB(r.db) ELSE SetDB(DB)
       /\ ret' = [op |-> "importCsv", ok |-> TRUE, val |-> Cardinality(st.imported)]
       /\ UNCHANGED today

\* POST /api/positions -> createPosition
CreatePosition(name, tradeIds, notes) ==
    LET r == createPosition(DB, trades, name, tradeIds, notes)
    IN /\ Served
       /\ r.id <= MaxPosId
       /\ SetDB(r.db)
       /\ ret' = [op |-> "createPosition", ok |-> ~r.threw, val |-> r.id]
       /\ UNCHANGED <<tradeVars, today>>

\* POST /api/positions/:id/trades -> addTradesToPosition
AddTradesToPosition(positionId, tradeIds) ==
    LET r == addTradesToPosition(DB, trades, positionId, tradeIds)
    IN /\ Served
       /\ SetDB(r.db)
       /\ ret' = [op |-> "addTradesToPosition", ok |-> ~r.threw, val |-> r.added]
       /\ UNCHANGED <<tradeVars, today>>

\* DELETE /api/positions/:id/trades -> removeTradesFromPosition
RemoveTradesFromPosition(positionId, tradeIds) ==
    LET r == removeTradesFromPosition(DB, positionId, tradeIds)
    IN /\ Served
       /\ SetDB(r.db)
       /\ ret' = [op |-> "removeTradesFromPosition", ok |-> TRUE, val |-> r.removed]
       /\ UNCHANGED <<tradeVars, today>>

\* DELETE /api/positions/:id -> deletePosition
DeletePosition(id) ==
    LET r == deletePosition(DB, id)
    IN /\ Served
       /\ SetDB(r.db)
       /\ ret' = [op |-> "deletePosition", ok |-> TRUE, val |-> IF r.found THEN 1 ELSE 0]
       /\ UNCHANGED <<tradeVars, today>>

\* POST /api/positions/:id/ungroup -> ungroupPosition
UngroupPosition(id) ==
    LET r == ungroupPosition(DB, trades, id, today)
    IN /\ Served
       /\ r.db.seq <= MaxPosId
       /\ SetDB(r.db)
       /\ ret' = [op |-> "ungroupPosition", ok |-> TRUE, val |-> r.created]
       /\ UNCHANGED <<tradeVars, today>>

\* POST /api/positions/merge -> mergePositions (the route wants >= 2 ids and a name)
MergePositions(positionIds, newName) ==
    LET r == mergePositions(DB, trades, positionIds, newName)
    IN /\ Served
       /\ Len(positionIds) >= 2
       /\ r.id <= MaxPosId
       /\ SetDB(r.db)
       /\ ret' = [op |-> "mergePositions", ok |-> ~r.threw, val |-> r.id]
       /\ UNCHANGED <<tradeVars, today>>

\* POST /api/positions/recompute -> recomputeAllPositions
RecomputeAllPositions ==
    LET r == recomputeAllPositions(DB, trades, today)
    IN /\ Served
       /\ r.db.seq <= MaxPosId
       /\ SetDB(r.db)
       /\ ret' = [op |-> "recomputeAllPositions", ok |-> TRUE, val |-> r.created]
       /\ UNCHANGED <<tradeVars, today>>

\* DELETE /api/trades/:id -> deleteTrade
DeleteTrade(id) ==
    /\ Served
    /\ trades' = DeleteTradeRows(trades, {id})
    /\ position_trades' = CascadeTradeDelete(position_trades, {id})
    /\ ret' = [op |-> "deleteTrade", ok |-> TRUE,
               val |-> IF id \in DOMAIN trades THEN 1 ELSE 0]
    /\ UNCHANGED <<accounts, accountSeq, tradeSeq, positions, positionSeq, today>>

\* DELETE /api/accounts/:id -> deleteAccount
DeleteAccount(id) ==
    LET gone == {t \in DOMAIN trades : trades[t].account_id = id}
    IN /\ Served
       /\ trades' = DeleteTradeRows(trades, gone)
       /\ position_trades' = CascadeTradeDelete(position_trades, gone)
       /\ accounts' = [a \in (DOMAIN accounts) \ {id} |-> accounts[a]]
       /\ ret' = [op |-> "deleteAccount", ok |-> TRUE,
                  val |-> IF id \in DOMAIN accounts THEN 1 ELSE 0]
       /\ UNCHANGED <<accountSeq, tradeSeq, positions, positionSeq, today>>

\* POST /api/trades/expire -> expireTrades
ExpireTrades(ids) ==
    /\ Served
    /\ trades' = [t \in DOMAIN trades |->
                    IF t \in Range(ids) THEN [trades[t] EXCEPT !.expired_worthless = TRUE]
                    ELSE trades[t]]
    /\ ret' = [op |-> "expireTrades", ok |-> TRUE,
               val |-> Cardinality(Range(ids) \cap DOMAIN trades)]
    /\ UNCHANGED <<accounts, accountSeq, tradeSeq, positions, position_trades,
                   positionSeq, today>>

\* DELETE /api/trades -> deleteAllTrades
DeleteAllTrades ==
    /\ Served
    /\ position_trades' = {}
    /\ positions' = EmptyTable
    /\ trades' = EmptyTable
    /\ ret' = [op |-> "deleteAllTrades", ok |-> TRUE, val |-> Cardinality(DOMAIN trades)]
    /\ UNCHANGED <<accounts, accountSeq, tradeSeq, positionSeq, today>>

\* PATCH /api/positions/:id -> updatePosition
UpdatePosition(id, body) ==
    LET r == updatePosition(DB, id, body)
    IN /\ Served
       /\ SetDB(r.db)
       /\ ret' = [op |-> "updatePosition", ok |-> TRUE,
                  val |-> CASE r.result = "null" -> 400 [] r.result = "false" -> 404
                            [] OTHER -> 200]
       /\ UNCHANGED <<tradeVars, today>>

\* DELETE /api/import/:id -> deleteImport: its body is wrapped in
\* db.transaction(...), which the DatabaseSync handle of database.js does not
\* have, so the call throws before any statement runs
DeleteImport(importId) ==
    /\ Served
    /\ ret' = [op |-> "deleteImport", ok |-> FALSE, val |-> 0]
    /\ UNCHANGED <<tradeVars, positions, position_trades, positionSeq, today>>

All == [accounts |-> accounts, accountSeq |-> accountSeq, trades |-> trades,
        tradeSeq |-> tradeSeq, positions |-> positions,
        position_trades |-> position_trades, positionSeq |-> positionSeq]

\* POST /api/import/backup -> importBackup
ImportBackup(backup) ==
    LET r == importBackup(All, backup)
    IN /\ Served
       /\ accounts' = r.all.accounts
       /\ accountSeq' = r.all.accountSeq
       /\ trades' = r.all.trades
       /\ tradeSeq' = r.all.tradeSeq
       /\ positions' = r.all.positions
       /\ position_trades' = r.all.position_trades
       /\ positionSeq' = r.all.positionSeq
       /\ ret' = [op |-> "importBackup", ok |-> ~r.threw, val |-> Len(backup.positionTrades)]
       /\ UNCHANGED today

\* the request bodies of PATCH /api/positions/:id
UpdateBodies ==
    {[name |-> UNDEF, notes |-> UNDEF, why |-> UNDEF],
     [name |-> "Hedge", notes |-> UNDEF, why |-> "earnings"]}

\* backup files written by hand or by an older export: one account, two
\* trades of one contract, an unnamed and a named position, and any selection
\* of links in id order, valid or not
BackupLinks == {BackupRow(1, 1), BackupRow(2, 1), BackupRow(2, 2), BackupRow(3, 2)}

BackupFiles ==
    {[accounts |-> [a \in {1} |-> "robinhood"],
      trades |-> [t \in 1..2 |-> TradeRow(1, t)],
      positions |-> [p \in 1..2 |->
                       IF p = 1 THEN [name |-> NULL, notes |-> NULL, why |-> NULL,
                                      status |-> "closed"]
                       ELSE [name |-> "Spread", notes |-> "", why |-> NULL,
                             status |-> "open"]],
      positionTrades |-> l] :
        l \in {SetToSeq(S) : S \in SUBSET BackupLinks}}

Next ==
    \/ \E f \in Files : ImportCsv(f)
    \/ \E name \in Names, tradeIds \in TradeIdLists \cup {<<>>} :
          CreatePosition(name, tradeIds, "")
    \/ \E p \in PositionIds, tradeIds \in TradeIdLists : AddTradesToPosition(p, tradeIds)
    \/ \E p \in PositionIds, tradeIds \in TradeIdLists : RemoveTradesFromPosition(p, tradeIds)
    \/ \E p \in PositionIds : DeletePosition(p)
    \/ \E p \in PositionIds : UngroupPosition(p)
    \/ \E ps \in PositionIdLists, name \in Names : MergePositions(ps, name)
    \/ RecomputeAllPositions
    \/ \E t \in TradeIds : DeleteTrade(t)
    \/ \E a \in AccountIds : DeleteAccount(a)
    \/ \E ids \in TradeIdLists : ExpireTrades(ids)
    \/ DeleteAllTrades
    \/ \E p \in PositionIds, body \in UpdateBodies : UpdatePosition(p, body)
    \/ \E i \in AccountIds : DeleteImport(i)
    \/ \E backup \in BackupFiles \cup {exportAllData(All)} : ImportBackup(backup)

Spec == Init /\ [][Next]_vars

(* ------------------------------------------------------------------ *)
(* Properties                                                          *)
(* ------------------------------------------------------------------ *)

\* helpers of the properties, on explicit tables
RowsOfTrade(pt, t) == {r \in pt : r[2] = t}
Unnamed(pos) == {p \in DOMAIN pos : pos[p].name = NULL}
Named(pos) == {p \in DOMAIN pos : pos[p].name # NULL}
OwnedByNamed(pos, pt) == {r[2] : r \in {x \in pt : x[1] \in Named(pos)}}
SamePosition(p) ==
    /\ p \in DOMAIN positions'
    /\ positions'[p] = positions[p]
    /\ TradesOf(position_trades', p) = TradesOf(position_trades, p)
TripSets(roundTrips) ==
    {<<Range(roundTrips[k].tradeIds), roundTrips[k].status>> : k \in 1..Len(roundTrips)}
PositionSets(pos, pt, ps) == {<<TradesOf(pt, p), pos[p].status>> : p \in ps}

\* C1: every trade id appears in at most one position_trades row, whatever
\* sequence of position operations, imports, trade deletions and backup
\* restores has run
C1_AtMostOneOwner ==
    \A t \in LinkedTrades(position_trades) :
        Cardinality(RowsOfTrade(position_trades, t)) <= 1

\* a position operation has taken trades over from another position
C1_Witness ==
    /\ ret.op \in {"createPosition", "addTradesToPosition", "mergePositions"}
    /\ ret.ok
    /\ \E p \in DOMAIN positions : Cardinality(TradesOf(position_trades, p)) >= 2

\* C2 as stated: between two calls every existing trade is owned by exactly
\* one Position, never by none
C2_ExactlyOneOwner ==
    \A t \in DOMAIN trades : Cardinality(RowsOfTrade(position_trades, t)) = 1

\* C2 as amended: a trade never has two owners, and when recomputeAllPositions
\* returns every existing trade has exactly one owner (between other calls a
\* trade can be owned by no Position)
C2_OwnedAfterRecomputeAll ==
    /\ \A t \in DOMAIN trades : Cardinality(RowsOfTrade(position_trades, t)) <= 1
    /\ ret.op = "recomputeAllPositions" =>
          \A t \in DOMAIN trades : Cardinality(RowsOfTrade(position_trades, t)) = 1

\* recomputeAllPositions has run over trades, named positions included
C2_Witness ==
    /\ ret.op = "recomputeAllPositions"
    /\ ret.val >= 1
    /\ Named(positions) # {}
    /\ OwnedByNamed(positions, position_trades) # {}

\* C3: an import (recomputePositionsAfterImport) and recomputeAllPositions
\* leave every named Position as it was: same id, name, notes, why, status
\* and trades
C3_NamedUntouched ==
    [][ret'.op \in {"importCsv", "recomputeAllPositions"} =>
          \A p \in Named(positions) : SamePosition(p)]_vars

\* an import has segmented a trade that shares its key with a trade of a
\* named Position
C3_Witness ==
    /\ ret.op = "importCsv"
    /\ ret.val >= 1
    /\ \E p \in Named(positions), q \in Unnamed(positions) :
          \E t \in TradesOf(position_trades, p), u \in TradesOf(position_trades, q) :
              TradeKey(trades, t) = TradeKey(trades, u)

\* C4: a position operation that ends with an error leaves positions and
\* position_trades exactly as they were before the call
C4_ErrorLeavesTablesUnchanged ==
    [][(/\ ret'.op \in {"createPosition", "addTradesToPosition", "mergePositions",
                        "ungroupPosition", "importCsv", "recomputeAllPositions"}
        /\ ~ret'.ok)
       => (positions' = positions /\ position_trades' = position_trades)]_vars

\* C5: createPosition(name, tradeIds, notes) on existing trades
CreatePost(name, tradeIds) ==
    LET new == ret'.val
        ids == Range(tradeIds)
    IN /\ ret'.ok
       /\ new \notin DOMAIN positions
       /\ new \in DOMAIN positions'
       /\ positions'[new].name = name
       /\ name # NULL
       /\ TradesOf(position_trades', new) = ids
       /\ \A p \in (DOMAIN positions') \ {new} : TradesOf(position_trades', p) \cap ids = {}
       /\ DOMAIN positions' \subseteq (DOMAIN positions) \cup {new}
       /\ \A p \in DOMAIN positions :
             LET before == TradesOf(position_trades, p)
             IN IF before \cap ids # {} /\ before \subseteq ids
                THEN p \notin DOMAIN positions'
                ELSE /\ p \in DOMAIN positions'
                     /\ positions'[p] = positions[p]
                     /\ TradesOf(position_trades', p) = before \ ids

\* C5: after createPosition the new Position is named and owns exactly
\* tradeIds, nobody else owns them, emptied Positions are gone and all other
\* Positions keep their remaining trades
C5_CreateOwnsExactly ==
    [][ret'.op = "createPosition" =>
          \A name \in Names, tradeIds \in TradeIdLists \cup {<<>>} :
             (Range(tradeIds) \subseteq DOMAIN trades /\ CreatePosition(name, tradeIds, ""))
             => CreatePost(name, tradeIds)]_vars

\* createPosition took trades from two Positions, emptying one of them
C5_Witness ==
    /\ ret.op = "createPosition"
    /\ ret.ok
    /\ ret.val \in DOMAIN positions
    /\ Cardinality(TradesOf(position_trades, ret.val)) >= 2
    /\ Cardinality(DOMAIN positions) >= 2
    /\ \E p \in 1..ret.val : p \notin DOMAIN positions

\* C6: mergePositions(ids, name) on existing Positions
MergePost(positionIds, name) ==
    LET new == ret'.val
        src == Range(positionIds)
    IN /\ ret'.ok
       /\ new \notin DOMAIN positions
       /\ DOMAIN positions' = ((DOMAIN positions) \ src) \cup {new}
       /\ positions'[new].name = name
       /\ name # NULL
       /\ TradesOf(position_trades', new) = UNION {TradesOf(position_trades, p) : p \in src}
       /\ \A p \in (DOMAIN positions) \ src : SamePosition(p)

\* C6: after mergePositions one new named Position owns the union of the
\* sources' trades, the sources are gone and no other Position changed
C6_MergeIsUnion ==
    [][ret'.op = "mergePositions" =>
          \A positionIds \in PositionIdLists, name \in Names :
             (/\ Len(positionIds) >= 2
              /\ Range(positionIds) \subseteq DOMAIN positions
              /\ MergePositions(positionIds, name))
             => MergePost(positionIds, name)]_vars

\* two Positions with trades have been merged
C6_Witness ==
    /\ ret.op = "mergePositions"
    /\ ret.ok
    /\ ret.val \in DOMAIN positions
    /\ Cardinality(TradesOf(position_trades, ret.val)) >= 2

\* C7: ungroupPosition(id) on a Position that owns trades
UngroupPost(id) ==
    LET T == TradesOf(position_trades, id)
        created == (DOMAIN positions') \ (DOMAIN positions)
    IN /\ id \notin DOMAIN positions'
       /\ \A t \in T : /\ Cardinality(RowsOfTrade(position_trades', t)) = 1
                       /\ OwnersOf(position_trades', t) \subseteq created
       /\ \A p \in created : /\ positions'[p].name = NULL
                             /\ TradesOf(position_trades', p) \subseteq T
       /\ \A p \in (DOMAIN positions) \ {id} : SamePosition(p)

\* C7: after ungroupPosition the Position is gone, each of its trades is owned
\* by exactly one new unnamed Position, the new Positions own nothing else and
\* every other Position is unchanged
C7_UngroupResegments ==
    [][ret'.op = "ungroupPosition" =>
          \A id \in PositionIds :
             (/\ id \in DOMAIN positions
              /\ TradesOf(position_trades, id) # {}
              /\ UngroupPosition(id))
             => UngroupPost(id)]_vars

\* a Position has been split into two unnamed Positions
C7_Witness ==
    /\ ret.op = "ungroupPosition"
    /\ ret.val >= 2
    /\ Cardinality(Unnamed(positions)) >= 2
    /\ \A t \in DOMAIN trades : Cardinality(RowsOfTrade(position_trades, t)) = 1

\* C8: recomputeAllPositions()
RecomputeAllPost ==
    LET free == (DOMAIN trades) \ OwnedByNamed(positions, position_trades)
        roundTrips == computeRoundTrips(trades, OrderedTrades(trades, free), today)
        after == Unnamed(positions')
    IN /\ Unnamed(positions) \cap DOMAIN positions' = {}
       /\ \A t \in free : /\ Cardinality(RowsOfTrade(position_trades', t)) = 1
                          /\ OwnersOf(position_trades', t) \subseteq after
       /\ PositionSets(positions', position_trades', after) = TripSets(roundTrips)
       /\ Cardinality(after) = Len(roundTrips)

\* C8: after recomputeAllPositions the old unnamed Positions are gone, every
\* trade outside named Positions has exactly one unnamed owner, and the
\* unnamed Positions are the round trips of those trades in (executed_at,
\* buy before sell) order
C8_RecomputeAllIsSegmentation ==
    [][ret'.op = "recomputeAllPositions" => RecomputeAllPost]_vars

\* recomputeAllPositions replaced unnamed Positions next to a named one
C8_Witness ==
    /\ ret.op = "recomputeAllPositions"
    /\ ret.val >= 1
    /\ Named(positions) # {}
    /\ Unnamed(positions) # {}
    /\ \E p \in 1..positionSeq : p \notin DOMAIN positions

\* C9: recomputePositionsAfterImport, per touched key
ImportPost ==
    LET imported == (DOMAIN trades') \ (DOMAIN trades)
        touched == {TradeKey(trades', t) : t \in imported}
        after == Unnamed(positions')
    IN \A k \in touched :
          LET ofKey == {t \in DOMAIN trades' : TradeKey(trades', t) = k}
              full == ofKey \ OwnedByNamed(positions', position_trades')
              roundTrips == computeRoundTrips(trades', OrderedTrades(trades', full), today)
              holding == {p \in after : TradesOf(position_trades', p) \cap ofKey # {}}
          IN {TradesOf(position_trades', p) : p \in holding}
                = {Range(roundTrips[i].tradeIds) : i \in 1..Len(roundTrips)}

\* C9: after an import, for every touched key the unnamed Positions holding
\* trades of that key are the round trips of all trades of the key that are
\* not owned by a named Position
C9_ImportResegmentsWholeKey ==
    [][(ret'.op = "importCsv" /\ ret'.val >= 1) => ImportPost]_vars

\* C10: no step leaves behind a Position without trades that was not
\* already there without trades
C10_NoEmptyPosition ==
    [][\A p \in DOMAIN positions' :
          TradesOf(position_trades', p) = {}
          => (p \in DOMAIN positions /\ TradesOf(position_trades, p) = {})]_vars

\* the HTTP status the positions routes answer with for an outcome
HttpStatus(r) ==
    CASE r.op = "updatePosition" -> r.val
      [] r.op = "deletePosition" -> IF r.val = 0 THEN 404 ELSE 200
      [] OTHER -> IF r.ok THEN 200 ELSE 500

NotFoundOutcome ==
    /\ HttpStatus(ret') = 404
    /\ positions' = positions
    /\ position_trades' = position_trades

\* C11: a call that names a Position id without a row (ungroup, add trades,
\* remove trades, merge, update, delete) answers not-found and leaves
\* positions and position_trades as they were
C11_MissingPositionIsNotFound ==
    [][ret'.op \in {"ungroupPosition", "addTradesToPosition", "removeTradesFromPosition",
                    "mergePositions", "updatePosition", "deletePosition"} =>
          /\ \A p \in PositionIds \ DOMAIN positions :
                /\ UngroupPosition(p) => NotFoundOutcome
                /\ DeletePosition(p) => NotFoundOutcome
                /\ \A body \in UpdateBodies :
                      (body.name # UNDEF /\ UpdatePosition(p, body)) => NotFoundOutcome
                /\ \A tradeIds \in TradeIdLists :
                      /\ AddTradesToPosition(p, tradeIds) => NotFoundOutcome
                      /\ RemoveTradesFromPosition(p, tradeIds) => NotFoundOutcome
          /\ \A ps \in PositionIdLists :
                (~(Range(ps) \subseteq DOMAIN positions) /\ MergePositions(ps, "Spread"))
                => NotFoundOutcome]_vars

(* ------------------------------------------------------------------ *)
(* computeRoundTrips as a function of the list of trades it is given    *)
(* ------------------------------------------------------------------ *)

\* longest list of trades handed to a matcher
MaxStream == 3
\* largest quantity of one trade
MaxQty == 2

\* a row of trades as the SELECT t.* of the callers returns it; the rows are
\* numbered in execution order
StreamRow(i, side, quantity, account_id, asset_type, expiration_date, expired_worthless) ==
    [account_id |-> account_id, broker_trade_id |-> i,
     symbol |-> IF asset_type = "option" THEN "SPX260107C05000000" ELSE "AAPL",
     asset_type |-> asset_type, side |-> side, quantity |-> quantity,
     executed_at |-> i, expiration_date |-> expiration_date,
     expired_worthless |-> expired_worthless]

\* a list of trades of one symbol: legs gives the side and quantity of each
\* trade, trade number other (if any) belongs to a second account, trade
\* number flagged (if any) has expired_worthless set
Stream(legs, other, flagged, asset_type, expiration_date) ==
    [i \in DOMAIN legs |-> StreamRow(i, legs[i][1], legs[i][2],
                                     IF i = other THEN 2 ELSE 1, asset_type,
                                     expiration_date, i = flagged)]

\* stocks, options with a stored expiration date, options without one
Contracts == {<<"stock", NoDate>>, <<"option", ExpirationDay>>, <<"option", NoDate>>}

dbVars == <<accounts, accountSeq, trades, tradeSeq, positions, position_trades,
            positionSeq, today, ret>>

\* no request is being served: the function is studied on its own
Quiet ==
    /\ accounts = EmptyTable
    /\ accountSeq = 0
    /\ trades = EmptyTable
    /\ tradeSeq = 0
    /\ positions = EmptyTable
    /\ position_trades = {}
    /\ positionSeq = 0
    /\ today = ExpirationDay
    /\ ret = [op |-> "init", ok |-> TRUE, val |-> 0]
    /\ requests = 0
    /\ output = <<>>

\* the function is applied once
Applied == requests = 0 /\ requests' = 1 /\ UNCHANGED <<dbVars, input>>

\* lists of 1..MaxStream trades with any sides and quantities 1..MaxQty
SegmenterInit ==
    /\ Quiet
    /\ \E n \in 1..MaxStream :
          \E legs \in [1..n -> {"buy", "sell"} \X (1..MaxQty)],
             other \in 0..n, flagged \in 0..n, c \in Contracts, d \in Days :
             input = [tr |-> Stream(legs, other, flagged, c[1], c[2]), now |-> d]

Segment ==
    /\ Applied
    /\ output' = computeRoundTrips(input.tr, OrderedTrades(input.tr, DOMAIN input.tr),
                                   input.now)

SegmenterSpec == SegmenterInit /\ [][Segment]_vars

\* the trades of key k in the order given
KeyStream(tr, k) ==
    SelectSeq(OrderedTrades(tr, DOMAIN tr), LAMBDA t : TradeKey(tr, t) = k)

\* quantity bought (side = "buy") or sold among the first j trades of s
RECURSIVE CumQty(_, _, _, _)
CumQty(tr, s, j, side) ==
    IF j = 0 THEN 0
    ELSE CumQty(tr, s, j - 1, side) + (IF tr[s[j]].side = side THEN tr[s[j]].quantity ELSE 0)

BalancePoints(tr, s) ==
    {j \in 1..Len(s) : /\ CumQty(tr, s, j, "buy") = CumQty(tr, s, j, "sell")
                       /\ CumQty(tr, s, j, "buy") > 0}

\* the emitted round trips of key k, in emission order
TripsOfKey(tr, out, k) == SelectSeq(out, LAMBDA rt : TradeKey(tr, rt.tradeIds[1]) = k)

RECURSIVE Flatten(_)
Flatten(trips) ==
    IF trips = <<>> THEN <<>> ELSE Head(trips).tradeIds \o Flatten(Tail(trips))

\* the index in the key stream at which the i-th round trip ends
TripEnd(trips, i) == Len(Flatten(SubSeq(trips, 1, i)))

\* C12: per key the round trips are consecutive pieces of the stream, they end
\* exactly at the balance points (cumulative bought = cumulative sold > 0) and
\* at the end of the stream, and the first one is trades 1..k for the first
\* balance point k
C12_TripsEndAtBalancePoints ==
    requests = 1 =>
       \A k \in {TradeKey(input.tr, t) : t \in DOMAIN input.tr} :
          LET s == KeyStream(input.tr, k)
              trips == TripsOfKey(input.tr, output, k)
              B == BalancePoints(input.tr, s)
          IN /\ Flatten(trips) = s
             /\ {TripEnd(trips, i) : i \in 1..Len(trips)} = B \cup {Len(s)}
             /\ B # {} => trips[1].tradeIds = SubSeq(s, 1, CHOOSE j \in B : \A b \in B : j <= b)

\* a stream whose first balance point is reached after two or more trades and
\* before its end has been segmented
C12_Witness ==
    /\ requests = 1
    /\ Len(output) >= 2
    /\ \E k \in {TradeKey(input.tr, t) : t \in DOMAIN input.tr} :
          LET B == BalancePoints(input.tr, KeyStream(input.tr, k))
          IN /\ B # {}
             /\ \A b \in B : b >= 2
             /\ \E b \in B : b < Len(KeyStream(input.tr, k))


(* ------------------------------------------------------------------ *)
(* parseOptionSymbol and buildOccSymbol: the OCC symbol codec          *)
(* ------------------------------------------------------------------ *)

\* a symbol is the sequence of its characters
Letters == {"A", "C", "P", "S", "W", "X"}
DigitChars == <<"0", "1", "2", "3", "4", "5", "6", "7", "8", "9">>

IsDigit(c) == \E i \in 1..10 : DigitChars[i] = c

\* the value of a digit character
DigitValue(c) == (CHOOSE i \in 1..10 : DigitChars[i] = c) - 1

\* parseInt of a string of digits
RECURSIVE parseInt(_)
parseInt(str) ==
    IF str = <<>> THEN 0
    ELSE 10 * parseInt(SubSeq(str, 1, Len(str) - 1)) + DigitValue(str[Len(str)])

\* String(n) for a natural number
RECURSIVE String(_)
String(n) ==
    IF n < 10 THEN <<DigitChars[n + 1]>>
    ELSE Append(String(n \div 10), DigitChars[(n % 10) + 1])

\* str.padStart(targetLength, '0')
RECURSIVE padStart(_, _)
padStart(str, targetLength) ==
    IF Len(str) >= targetLength THEN str ELSE padStart(<<"0">> \o str, targetLength)

\* a year that keeps its last digits after slice(-2)
LastTwo_Whole(str) == str

\* str.slice(-2)
LastTwo(str) == IF Len(str) <= 2 THEN str ELSE SubSeq(str, Len(str) - 1, Len(str))

IsLeapYear(year) == (year % 4 = 0 /\ year % 100 # 0) \/ year % 400 = 0

DaysInMonth(year, month) ==
    IF month = 2 THEN (IF IsLeapYear(year) THEN 29 ELSE 28)
    ELSE IF month \in {4, 6, 9, 11} THEN 30 ELSE 31

\* new Date(year, month - 1, day) for month in 1..12 and day in 1..31, read
\* back with getFullYear(), getMonth() + 1 and getDate(): a day past the end
\* of the month rolls over into the next month
NewDate(year, month, day) ==
    IF day <= DaysInMonth(year, month)
    THEN [year |-> year, month |-> month, day |-> day]
    ELSE [year |-> IF month = 12 THEN year + 1 ELSE year,
          month |-> IF month = 12 THEN 1 ELSE month + 1,
          day |-> day - DaysInMonth(year, month)]

\* the length of the longest prefix of upper-case letters ([A-Z]+ is greedy)
RECURSIVE LetterPrefix(_)
LetterPrefix(symbol) ==
    IF symbol = <<>> \/ IsDigit(Head(symbol)) THEN 0 ELSE 1 + LetterPrefix(Tail(symbol))

\* symbol.match(/^([A-Z]+)(\d{6})([CP])(\d+)$/)
Matches(symbol) ==
    LET u == LetterPrefix(symbol)
    IN /\ u >= 1
       /\ Len(symbol) >= u + 8
       /\ \A i \in (u + 1)..(u + 6) : IsDigit(symbol[i])
       /\ symbol[u + 7] \in {"C", "P"}
       /\ \A i \in (u + 8)..Len(symbol) : IsDigit(symbol[i])

\* parseOptionSymbol(symbol) for a symbol that matches; strike is the
\* fraction <<parseInt(strikeStr), 1000>>
parseOptionSymbol(symbol) ==
    LET u == LetterPrefix(symbol)
        underlying == SubSeq(symbol, 1, u)
        dateStr == SubSeq(symbol, u + 1, u + 6)
        type == symbol[u + 7]
        strikeStr == SubSeq(symbol, u + 8, Len(symbol))
        year == parseInt(SubSeq(dateStr, 1, 2)) + 2000
        month == parseInt(SubSeq(dateStr, 3, 4))
        day == parseInt(SubSeq(dateStr, 5, 6))
    IN [underlying |-> IF underlying[Len(underlying)] = "W"
                       THEN SubSeq(underlying, 1, Len(underlying) - 1)
                       ELSE underlying,
        expiration |-> NewDate(year, month, day),
        typeShort |-> type,
        strike |-> <<parseInt(strikeStr), 1000>>]

\* Math.round(strike * 1000) for a fraction strike >= 0, the whole part and
\* the rest of the fraction multiplied apart
RoundThousandths(strike) ==
    (strike[1] \div strike[2]) * 1000
    + (2 * (strike[1] % strike[2]) * 1000 + strike[2]) \div (2 * strike[2])

\* buildOccSymbol(baseSymbol, expDate, type, strike)
buildOccSymbol(baseSymbol, expDate, type, strike) ==
    LET yy == LastTwo(String(expDate.year))
        mm == padStart(String(expDate.month), 2)
        dd == padStart(String(expDate.day), 2)
        strikeStr == padStart(String(RoundThousandths(strike)), 8)
    IN baseSymbol \o yy \o mm \o dd \o <<type>> \o strikeStr


(* ------------------------------------------------------------------ *)
(* getPositions: the FIFO matcher                                      *)
(* ------------------------------------------------------------------ *)

\* ORDER BY t.executed_at ASC (rows equal on the column come back in rowid
\* order)
RECURSIVE TradesByExecutedAt(_, _)
TradesByExecutedAt(tr, S) ==
    IF S = {} THEN <<>>
    ELSE LET m == CHOOSE x \in S : \A y \in S \ {x} :
                     \/ tr[x].executed_at < tr[y].executed_at
                     \/ tr[x].executed_at = tr[y].executed_at /\ x < y
         IN <<m>> \o TradesByExecutedAt(tr, S \ {m})

\* the expiration day that parseOptionSymbol reads in a symbol; the option
\* symbol of the model carries the day ExpirationDay, "AAPL" does not parse
SymbolExpiration(symbol) ==
    IF symbol = "SPX260107C05000000" THEN ExpirationDay ELSE NoDate

\* the characters of the symbols of the trades
Chars(symbol) ==
    CASE symbol = "SPX260107C05000000" ->
            <<"S", "P", "X", "2", "6", "0", "1", "0", "7", "C",
              "0", "5", "0", "0", "0", "0", "0", "0">>
      [] symbol = "SPXW260107C05000000" ->
            <<"S", "P", "X", "W", "2", "6", "0", "1", "0", "7", "C",
              "0", "5", "0", "0", "0", "0", "0", "0">>
      [] OTHER -> <<"A", "A", "P", "L">>

\* the symbols that trades carry, those that parseOptionSymbol accepts, and
\* what it returns for each of them
TradedSymbols == {"AAPL", "SPX260107C05000000", "SPXW260107C05000000"}
ParsableSymbols == {symbol \in TradedSymbols : Matches(Chars(symbol))}
ParsedSymbol == [symbol \in ParsableSymbols |-> parseOptionSymbol(Chars(symbol))]

\* options whose symbol parses: the parsed underlying, expiration, strike and
\* type followed by "option"; otherwise `${trade.symbol}_${trade.asset_type}`.
\* No account_id in either form.
getGroupingKey(tr, id) ==
    IF tr[id].asset_type = "option" /\ tr[id].symbol \in ParsableSymbols
    THEN LET parsed == ParsedSymbol[tr[id].symbol]
         IN <<parsed.underlying, parsed.expiration, parsed.strike, parsed.typeShort,
              "option">>
    ELSE <<tr[id].symbol, tr[id].asset_type>>

\* Object.keys(tradesByKey): keys in order of first appearance
RECURSIVE GroupingKeysInOrder(_, _)
GroupingKeysInOrder(tr, ids) ==
    IF ids = <<>> THEN <<>>
    ELSE LET init == GroupingKeysInOrder(tr, SubSeq(ids, 1, Len(ids) - 1))
             k == getGroupingKey(tr, ids[Len(ids)])
         IN IF \E i \in 1..Len(init) : init[i] = k THEN init ELSE Append(init, k)

\* checkOptionExpiration(symbol, assetType, storedExpirationDate): null is
\* [expired |-> FALSE, expirationDate |-> NoDate]
checkOptionExpiration(symbol, assetType, storedExpirationDate, now) ==
    LET expDate == IF storedExpirationDate # NoDate THEN storedExpirationDate
                   ELSE SymbolExpiration(symbol)
    IN IF assetType # "option" \/ expDate = NoDate
       THEN [expired |-> FALSE, expirationDate |-> NoDate]
       ELSE [expired |-> expDate < now, expirationDate |-> expDate]

\* a matcher that always takes the whole open lot
Min_Left(a, b) == a

\* Math.min
Min(a, b) == IF a <= b THEN a ELSE b

\* the row pushed when trade closes matchedQty of the open lot lot; short is
\* TRUE when a buy closes an open sell
ClosedMatch(tr, lot, trade, matchedQty, short) ==
    [status |-> "closed",
     asset_type |-> tr[trade].asset_type,
     quantity |-> IF short THEN 0 - matchedQty ELSE matchedQty,
     buyDate |-> IF short THEN tr[trade].executed_at ELSE tr[lot].executed_at,
     sellDate |-> IF short THEN tr[lot].executed_at ELSE tr[trade].executed_at,
     pnl |-> "number",
     tradeIds |-> <<lot, trade>>,
     trades |-> <<[id |-> lot, quantity |-> matchedQty],
                  [id |-> trade, quantity |-> matchedQty]>>]

\* a matcher that goes through the open lots from the newest to the oldest
RECURSIVE CloseLots_NewestFirst(_, _, _, _, _, _)
CloseLots_NewestFirst(tr, queue, j, trade, remaining, rows) ==
    LET n == Len(queue) + 1 - j
    IN IF j > Len(queue) \/ remaining <= 0
       THEN [queue |-> queue, remaining |-> remaining, rows |-> rows]
       ELSE IF queue[n].remainingQty <= 0
            THEN CloseLots_NewestFirst(tr, queue, j + 1, trade, remaining, rows)
            ELSE LET matchedQty == Min(queue[n].remainingQty, remaining)
                 IN CloseLots_NewestFirst(
                        tr, [queue EXCEPT ![n].remainingQty = @ - matchedQty],
                        j + 1, trade, remaining - matchedQty,
                        Append(rows, ClosedMatch(tr, queue[n].id, trade, matchedQty,
                                                 tr[trade].side = "buy")))

\* a matcher that stops after the first open lot it has matched
RECURSIVE CloseLots_FirstLotOnly(_, _, _, _, _, _)
CloseLots_FirstLotOnly(tr, queue, j, trade, remaining, rows) ==
    IF j > Len(queue) \/ remaining <= 0
    THEN [queue |-> queue, remaining |-> remaining, rows |-> rows]
    ELSE IF queue[j].remainingQty <= 0
         THEN CloseLots_FirstLotOnly(tr, queue, j + 1, trade, remaining, rows)
         ELSE LET matchedQty == Min(queue[j].remainingQty, remaining)
              IN [queue |-> [queue EXCEPT ![j].remainingQty = @ - matchedQty],
                  remaining |-> remaining - matchedQty,
                  rows |-> Append(rows, ClosedMatch(tr, queue[j].id, trade, matchedQty,
                                                    tr[trade].side = "buy"))]

\* for (const lot of queue): match trade against the open lots from index j
\* on; remaining is buyQtyRemaining / sellQtyRemaining
RECURSIVE CloseLots(_, _, _, _, _, _)
CloseLots(tr, queue, j, trade, remaining, rows) ==
    IF j > Len(queue) \/ remaining <= 0
    THEN [queue |-> queue, remaining |-> remaining, rows |-> rows]
    ELSE IF queue[j].remainingQty <= 0
         THEN CloseLots(tr, queue, j + 1, trade, remaining, rows)
         ELSE LET matchedQty == Min(queue[j].remainingQty, remaining)
              IN CloseLots(tr, [queue EXCEPT ![j].remainingQty = @ - matchedQty],
                           j + 1, trade, remaining - matchedQty,
                           Append(rows, ClosedMatch(tr, queue[j].id, trade, matchedQty,
                                                    tr[trade].side = "buy")))

\* the loop over one key's trades from index i on
RECURSIVE MatchTrades(_, _, _, _, _, _)
MatchTrades(tr, symbolTrades, i, openBuys, openSells, rows) ==
    IF i > Len(symbolTrades)
    THEN [openBuys |-> openBuys, openSells |-> openSells, rows |-> rows]
    ELSE LET trade == symbolTrades[i]
         IN IF tr[trade].side = "buy"
            THEN LET c == CloseLots(tr, openSells, 1, trade, tr[trade].quantity, rows)
                 IN MatchTrades(tr, symbolTrades, i + 1,
                                IF c.remaining > 0
                                THEN Append(openBuys, [id |-> trade,
                                                       remainingQty |-> c.remaining])
                                ELSE openBuys,
                                c.queue, c.rows)
            ELSE LET c == CloseLots(tr, openBuys, 1, trade, tr[trade].quantity, rows)
                 IN MatchTrades(tr, symbolTrades, i + 1, c.queue,
                                IF c.remaining > 0
                                THEN Append(openSells, [id |-> trade,
                                                        remainingQty |-> c.remaining])
                                ELSE openSells,
                                c.rows)

\* the row pushed for an open lot with remaining quantity
OpenLot(tr, symbol, lot, now) ==
    LET t == tr[lot.id]
        short == t.side = "sell"
        expInfo == checkOptionExpiration(symbol, t.asset_type, t.expiration_date, now)
        isManuallyExpired == t.expired_worthless
        closing == IF isManuallyExpired
                   THEN IF expInfo.expirationDate # NoDate THEN expInfo.expirationDate
                        ELSE t.expiration_date
                   ELSE NoDate
    IN [status |-> IF isManuallyExpired THEN "expired"
                   ELSE IF expInfo.expired THEN "pending_expiry" ELSE "open",
        asset_type |-> t.asset_type,
        quantity |-> IF short THEN 0 - lot.remainingQty ELSE lot.remainingQty,
        buyDate |-> IF short THEN closing ELSE t.executed_at,
        sellDate |-> IF short THEN t.executed_at ELSE closing,
        pnl |-> IF isManuallyExpired THEN "number" ELSE NULL,
        tradeIds |-> <<lot.id>>,
        trades |-> <<[id |-> lot.id, quantity |-> lot.remainingQty]>>]

\* for (const lot of queue) if (lot.remainingQty > 0) positions.push(...)
RECURSIVE OpenLots(_, _, _, _, _)
OpenLots(tr, symbol, queue, j, now) ==
    IF j > Len(queue) THEN <<>>
    ELSE (IF queue[j].remainingQty > 0
          THEN <<OpenLot(tr, symbol, queue[j], now)>> ELSE <<>>)
         \o OpenLots(tr, symbol, queue, j + 1, now)

\* the rows of one key: closed matches, open longs, open shorts
MatchKey(tr, symbolTrades, now) ==
    LET m == MatchTrades(tr, symbolTrades, 1, <<>>, <<>>, <<>>)
        symbol == tr[symbolTrades[1]].symbol
    IN m.rows \o OpenLots(tr, symbol, m.openBuys, 1, now)
              \o OpenLots(tr, symbol, m.openSells, 1, now)

RECURSIVE MatchKeys(_, _, _, _, _)
MatchKeys(tr, ids, keys, k, now) ==
    IF k > Len(keys) THEN <<>>
    ELSE MatchKey(tr, SelectSeq(ids, LAMBDA t : getGroupingKey(tr, t) = keys[k]), now)
         \o MatchKeys(tr, ids, keys, k + 1, now)

\* new Date(a.sellDate || a.buyDate)
ActivityDate(row) == IF row.sellDate # NoDate THEN row.sellDate ELSE row.buyDate

\* positions.sort((a, b) => dateB - dateA): stable, most recent first
RECURSIVE SortByActivity(_)
SortByActivity(rows) ==
    IF rows = <<>> THEN <<>>
    ELSE LET init == SortByActivity(SubSeq(rows, 1, Len(rows) - 1))
             last == rows[Len(rows)]
             n == Cardinality({i \in 1..Len(init) :
                                  ActivityDate(init[i]) >= ActivityDate(last)})
         IN SubSeq(init, 1, n) \o <<last>> \o SubSeq(init, n + 1, Len(init))

\* the body of getPositions once the SELECT has returned the rows in order ids
PositionsOf(tr, ids, now) ==
    SortByActivity(MatchKeys(tr, ids, GroupingKeysInOrder(tr, ids), 1, now))

getPositions(tr, now) == PositionsOf(tr, TradesByExecutedAt(tr, DOMAIN tr), now)

\* a list in which the odd-numbered trades are stock trades and the
\* even-numbered ones option trades with a stored expiration date
MixedStream(legs, other, flagged) ==
    [i \in DOMAIN legs |->
        StreamRow(i, legs[i][1], legs[i][2], IF i = other THEN 2 ELSE 1,
                  IF i % 2 = 1 THEN "stock" ELSE "option",
                  IF i % 2 = 1 THEN NoDate ELSE ExpirationDay, i = flagged)]

\* lists of 1..MaxStream trades of one contract, or of a stock and an option
MatcherInit ==
    /\ Quiet
    /\ \E n \in 1..MaxStream :
          \E legs \in [1..n -> {"buy", "sell"} \X (1..MaxQty)],
             other \in 0..n, flagged \in 0..n, d \in Days :
             \/ \E c \in Contracts :
                   input = [tr |-> Stream(legs, other, flagged, c[1], c[2]), now |-> d]
             \/ input = [tr |-> MixedStream(legs, other, flagged), now |-> d]

Match ==
    /\ Applied
    /\ output' = getPositions(input.tr, input.now)

MatcherSpec == MatcherInit /\ [][Match]_vars

RECURSIVE SumSeq(_)
SumSeq(s) == IF s = <<>> THEN 0 ELSE Head(s) + SumSeq(Tail(s))

\* the rows emitted for grouping key k
RowsOfKey(tr, out, k) == SelectSeq(out, LAMBDA row : getGroupingKey(tr, row.tradeIds[1]) = k)

\* the quantities of the trades of key k
TradeQuantities(tr, k) ==
    LET ids == SelectSeq(TradesByExecutedAt(tr, DOMAIN tr),
                         LAMBDA t : getGroupingKey(tr, t) = k)
    IN [i \in 1..Len(ids) |-> tr[ids[i]].quantity]

Abs(n) == IF n < 0 THEN 0 - n ELSE n

\* the quantities of the rows of status closed (closed = TRUE) or of the
\* other rows, each row counted once
RowQuantities(rows, closed) ==
    LET sel == SelectSeq(rows, LAMBDA row : (row.status = "closed") = closed)
    IN [i \in 1..Len(sel) |-> Abs(sel[i].quantity)]

\* the quantities of every trade fragment listed in the rows
FragmentQuantities(rows) ==
    [i \in 1..Len(rows) |-> SumSeq([j \in 1..Len(rows[i].trades) |->
                                       rows[i].trades[j].quantity])]

\* C13 as stated: per key the matched quantities, each closed match counted
\* once, plus the open quantities equal the quantities of all trades
C13_MatchedPlusOpenIsTotal ==
    requests = 1 =>
       \A k \in {getGroupingKey(input.tr, t) : t \in DOMAIN input.tr} :
          LET rows == RowsOfKey(input.tr, output, k)
          IN SumSeq(RowQuantities(rows, TRUE)) + SumSeq(RowQuantities(rows, FALSE))
             = SumSeq(TradeQuantities(input.tr, k))

\* C13: per key the matched quantity of every closed match, counted once for
\* its buy and once for its sell, plus the remaining quantities of the open
\* lots equal the quantities of all trades
C13_FifoConservation ==
    requests = 1 =>
       \A k \in {getGroupingKey(input.tr, t) : t \in DOMAIN input.tr} :
          LET rows == RowsOfKey(input.tr, output, k)
          IN /\ 2 * SumSeq(RowQuantities(rows, TRUE)) + SumSeq(RowQuantities(rows, FALSE))
                = SumSeq(TradeQuantities(input.tr, k))
             /\ SumSeq(FragmentQuantities(rows)) = SumSeq(TradeQuantities(input.tr, k))

\* two keys were matched, one with a partly closed lot left open
C13_Witness ==
    /\ requests = 1
    /\ Cardinality({getGroupingKey(input.tr, t) : t \in DOMAIN input.tr}) = 2
    /\ \E i, j \in 1..Len(output) :
          /\ output[i].status = "closed"
          /\ output[j].status # "closed"
          /\ output[j].tradeIds[1] \in Range(output[i].tradeIds)
          /\ Abs(output[j].quantity) < input.tr[output[j].tradeIds[1]].quantity

\* C14: no closed match of the FIFO matcher joins two non-option trades of
\* different accounts
C14_NoCrossAccountMatch ==
    requests = 1 =>
       \A i \in 1..Len(output) :
          (output[i].status = "closed" /\ output[i].asset_type # "option") =>
             \A a, b \in Range(output[i].tradeIds) :
                input.tr[a].account_id = input.tr[b].account_id


(* ------------------------------------------------------------------ *)
(* getRoundTripPositions: the round-trip view of all trades            *)
(* ------------------------------------------------------------------ *)

\* `${trade.symbol}_${trade.asset_type}`
RoundTripKey(tr, id) == <<tr[id].symbol, tr[id].asset_type>>

RECURSIVE RoundTripKeysInOrder(_, _)
RoundTripKeysInOrder(tr, ids) ==
    IF ids = <<>> THEN <<>>
    ELSE LET init == RoundTripKeysInOrder(tr, SubSeq(ids, 1, Len(ids) - 1))
             k == RoundTripKey(tr, ids[Len(ids)])
         IN IF \E i \in 1..Len(init) : init[i] = k THEN init ELSE Append(init, k)

\* currentTrip = { buys: [], sells: [], buyQty: 0, sellQty: 0, ... }
EmptyRoundTrip == [buys |-> <<>>, sells |-> <<>>, buyQty |-> 0, sellQty |-> 0]

\* [...currentTrip.buys, ...currentTrip.sells].sort(by executed_at), stable
AllTrades(tr, cur) ==
    LET both == cur.buys \o cur.sells
        before(i, j) == \/ tr[both[i]].executed_at < tr[both[j]].executed_at
                        \/ tr[both[i]].executed_at = tr[both[j]].executed_at /\ i < j
        place(i) == 1 + Cardinality({j \in 1..Len(both) : before(j, i)})
    IN [n \in 1..Len(both) |-> both[CHOOSE i \in 1..Len(both) : place(i) = n]]

\* currentTrip.buys[0]?.expiration_date || currentTrip.sells[0]?.expiration_date
\* (first = the buys for a balanced or long trip, the sells for a short one)
StoredExpDate(tr, first, second) ==
    IF first # <<>> /\ tr[first[1]].expiration_date # NoDate
    THEN tr[first[1]].expiration_date
    ELSE IF second # <<>> THEN tr[second[1]].expiration_date ELSE NoDate

\* the row pushed when the trip is complete
BalancedRoundTrip(tr, asset_type, cur) ==
    [status |-> "closed", asset_type |-> asset_type, quantity |-> cur.buyQty,
     buyDate |-> tr[cur.buys[1]].executed_at,
     sellDate |-> tr[cur.sells[Len(cur.sells)]].executed_at,
     pnl |-> "number", tradeIds |-> AllTrades(tr, cur)]

\* the row pushed for what is left when buyQty !== sellQty
OpenRoundTrip(tr, symbol, asset_type, cur, now) ==
    LET netQty == cur.buyQty - cur.sellQty
        storedExpDate == IF netQty > 0 THEN StoredExpDate(tr, cur.buys, cur.sells)
                         ELSE StoredExpDate(tr, cur.sells, cur.buys)
        expInfo == checkOptionExpiration(symbol, asset_type, storedExpDate, now)
        isExpired == expInfo.expired
    IN [status |-> IF isExpired THEN "expired" ELSE "open",
        asset_type |-> asset_type, quantity |-> netQty,
        buyDate |-> IF cur.buys # <<>> THEN tr[cur.buys[1]].executed_at ELSE NoDate,
        sellDate |-> IF isExpired THEN expInfo.expirationDate
                     ELSE IF cur.sells = <<>> THEN NoDate
                     ELSE IF netQty > 0 THEN tr[cur.sells[Len(cur.sells)]].executed_at
                     ELSE tr[cur.sells[1]].executed_at,
        pnl |-> IF isExpired THEN "number" ELSE NULL,
        tradeIds |-> AllTrades(tr, cur)]

\* the loop over one key's trades, from index i on, with currentTrip = cur
RECURSIVE RoundTripsOfKey(_, _, _, _, _, _)
RoundTripsOfKey(tr, symbolTrades, i, cur, now, out) ==
    LET symbol == tr[symbolTrades[1]].symbol
        asset_type == tr[symbolTrades[1]].asset_type
    IN IF i > Len(symbolTrades)
       THEN IF cur.buyQty # cur.sellQty
            THEN Append(out, OpenRoundTrip(tr, symbol, asset_type, cur, now))
            ELSE out
       ELSE LET t == symbolTrades[i]
                c1 == IF tr[t].side = "buy"
                      THEN [cur EXCEPT !.buys = Append(@, t),
                                       !.buyQty = @ + tr[t].quantity]
                      ELSE [cur EXCEPT !.sells = Append(@, t),
                                       !.sellQty = @ + tr[t].quantity]
            IN IF c1.buyQty = c1.sellQty /\ c1.buyQty > 0
               THEN RoundTripsOfKey(tr, symbolTrades, i + 1, EmptyRoundTrip, now,
                                    Append(out, BalancedRoundTrip(tr, asset_type, c1)))
               ELSE RoundTripsOfKey(tr, symbolTrades, i + 1, c1, now, out)

RECURSIVE RoundTripsOfKeys(_, _, _, _, _)
RoundTripsOfKeys(tr, ids, keys, k, now) ==
    IF k > Len(keys) THEN <<>>
    ELSE RoundTripsOfKey(tr, SelectSeq(ids, LAMBDA t : RoundTripKey(tr, t) = keys[k]),
                         1, EmptyRoundTrip, now, <<>>)
         \o RoundTripsOfKeys(tr, ids, keys, k + 1, now)

getRoundTripPositions(tr, now) ==
    LET ids == OrderedTrades(tr, DOMAIN tr)
    IN SortByActivity(RoundTripsOfKeys(tr, ids, RoundTripKeysInOrder(tr, ids), 1, now))

RoundTripInit == MatcherInit

RoundTrip ==
    /\ Applied
    /\ output' = getRoundTripPositions(input.tr, input.now)

RoundTripSpec == RoundTripInit /\ [][RoundTrip]_vars

\* C15: a row of the round-trip view that holds an unbalanced option contract
\* with no expired_worthless trade is not 'expired' and has no pnl, and once
\* the expiration date has passed it is 'pending_expiry'
C15_NoCalendarFinalization ==
    requests = 1 =>
       \A i \in 1..Len(output) :
          LET row == output[i]
          IN (/\ row.asset_type = "option"
              /\ row.quantity # 0
              /\ row.status # "closed"
              /\ \A t \in Range(row.tradeIds) : ~input.tr[t].expired_worthless)
             => /\ row.status # "expired"
                /\ row.pnl = NULL
                /\ (input.tr[row.tradeIds[1]].expiration_date # NoDate
                    /\ input.tr[row.tradeIds[1]].expiration_date < input.now)
                   => row.status = "pending_expiry"


(* ------------------------------------------------------------------ *)
(* recomputeAllPositions twice; import twice                           *)
(* ------------------------------------------------------------------ *)

\* the unnamed Positions of db as sets of trades with their status
UnnamedPartition(db) ==
    PositionSets(db.positions, db.position_trades, Unnamed(db.positions))

\* the named Positions of db with their trades
NamedPart(db) ==
    {<<p, db.positions[p], TradesOf(db.position_trades, p)>> : p \in Named(db.positions)}

\* C16: when recomputeAllPositions has returned, a second call right after it
\* leaves the same unnamed Positions (same sets of trades, same statuses,
\* same number) and the same named Positions, and the result is the one
\* obtained from the state in which the unnamed Positions are all deleted
\* first and their trades unowned
C16_RecomputeAllIdempotent ==
    [][ret'.op = "recomputeAllPositions" =>
          LET once == [positions |-> positions', position_trades |-> position_trades',
                       seq |-> positionSeq']
              twice == recomputeAllPositions(once, trades', today').db
              bare == DeletePositionRows(DB, Unnamed(positions))
              other == recomputeAllPositions(bare, trades, today).db
          IN /\ UnnamedPartition(twice) = UnnamedPartition(once)
             /\ Cardinality(Unnamed(twice.positions)) = Cardinality(Unnamed(once.positions))
             /\ NamedPart(twice) = NamedPart(once)
             /\ UnnamedPartition(other) = UnnamedPartition(once)
             /\ Cardinality(Unnamed(other.positions)) = Cardinality(Unnamed(once.positions))
    ]_vars

\* recomputeAllPositions has returned two or more unnamed Positions, one of
\* them not open, after earlier Positions had been deleted
C16_Witness ==
    /\ ret.op = "recomputeAllPositions"
    /\ Cardinality(Unnamed(positions)) >= 2
    /\ \E p \in Unnamed(positions) : positions[p].status # "open"
    /\ Cardinality(DOMAIN positions) < positionSeq

\* every execution of the file is already a trade of the file's account
AllExist(f) ==
    \A i \in 1..Len(f.execs) :
       \E t \in DOMAIN trades :
          /\ accounts[trades[t].account_id] = f.broker
          /\ trades[t].broker_trade_id = f.execs[i]

\* what importCsv reports and leaves when the file it was given is f
ImportCounts(f) ==
    LET account == getOrCreateAccount(accounts, accountSeq, f.broker)
        st == insertTrades([trades |-> trades, seq |-> tradeSeq, imported |-> {},
                            skipped |-> 0], account.id, f.execs, 1)
        trades_imported == Cardinality(st.imported)
        trades_skipped == st.skipped
    IN (accounts' = account.accounts /\ trades' = st.trades) =>
          /\ ret'.val = trades_imported
          /\ trades_imported + trades_skipped = Len(f.execs)
          /\ AllExist(f) => /\ trades_imported = 0
                            /\ trades_skipped = Len(f.execs)
                            /\ trades' = trades
                            /\ positions' = positions
                            /\ position_trades' = position_trades

\* C17: no two trades share (account_id, broker_trade_id); an import reports
\* imported + skipped = batch size, and when every (account_id,
\* broker_trade_id) of the batch exists already it inserts nothing, reports
\* imported = 0 and skipped = batch size and leaves trades, positions and
\* position_trades unchanged
C17_ImportIdempotent ==
    /\ [](\A a, b \in DOMAIN trades :
             (/\ trades[a].account_id = trades[b].account_id
              /\ trades[a].broker_trade_id = trades[b].broker_trade_id) => a = b)
    /\ [][ret'.op = "importCsv" => \A f \in Files : FileOk(f) => ImportCounts(f)]_vars

\* a file was imported again: nothing inserted although trades exist
C17_Witness ==
    /\ ret.op = "importCsv"
    /\ ret.val = 0
    /\ trades # EmptyTable
    /\ Unnamed(positions) # {}


(* ------------------------------------------------------------------ *)
(* calculatePositionMetrics: the metrics of one Position               *)
(* ------------------------------------------------------------------ *)

\* Object.keys(contractMap): the symbols in order of first appearance
RECURSIVE ContractSymbols(_)
ContractSymbols(rows) ==
    IF rows = <<>> THEN <<>>
    ELSE LET init == ContractSymbols(SubSeq(rows, 1, Len(rows) - 1))
             symbol == rows[Len(rows)].symbol
         IN IF \E i \in 1..Len(init) : init[i] = symbol THEN init ELSE Append(init, symbol)

\* the sum of field (quantity or total) over the trades of one symbol and side
FieldSum(rows, symbol, side, field) ==
    LET sel == SelectSeq(rows, LAMBDA t : t.symbol = symbol /\ t.side = side)
    IN SumSeq([i \in 1..Len(sel) |-> sel[i][field]])

\* contractMap[symbol]: asset_type and expiration_date are those of the first
\* trade of the symbol
Contract(rows, symbol) ==
    LET own == SelectSeq(rows, LAMBDA t : t.symbol = symbol)
    IN [symbol |-> symbol,
        asset_type |-> own[1].asset_type,
        expiration_date |-> own[1].expiration_date,
        buyQty |-> FieldSum(rows, symbol, "buy", "quantity"),
        sellQty |-> FieldSum(rows, symbol, "sell", "quantity"),
        buyTotal |-> FieldSum(rows, symbol, "buy", "total"),
        sellTotal |-> FieldSum(rows, symbol, "sell", "total"),
        hasManuallyExpired |-> \E i \in 1..Len(own) : own[i].expired_worthless]

\* isOptionExpired(contract)
isOptionExpired(contract, now) ==
    /\ contract.asset_type = "option"
    /\ contract.expiration_date # NoDate
    /\ contract.expiration_date < now

\* the leg an unbalanced contract adds: "expired", "pending" or "none"
Leg(contract, now) ==
    IF contract.buyQty - contract.sellQty = 0 THEN "balanced"
    ELSE IF contract.hasManuallyExpired THEN "expired"
    ELSE IF isOptionExpired(contract, now) THEN "pending"
    ELSE "none"

\* a profit counted as bought minus sold
PositionPnl_Reversed(totalBuy, totalSell) == totalBuy - totalSell

\* pnl = totalSell - totalBuy
PositionPnl(totalBuy, totalSell) == totalSell - totalBuy

\* calculatePositionMetrics(trades); pnl is <<>> for null and <<pnl>>
\* otherwise, pnlPercent is <<>> for null and the fraction
\* <<pnl * 100, totalBuy>> for (pnl / totalBuy) * 100
calculatePositionMetrics(rows, now) ==
    IF Len(rows) = 0
    THEN [totalBuy |-> 0, totalSell |-> 0, pnl |-> <<>>, pnlPercent |-> <<>>,
          status |-> "empty", legs |-> 0, expiredLegs |-> <<>>,
          pendingExpiryLegs |-> <<>>]
    ELSE LET symbols == ContractSymbols(rows)
             contract(i) == Contract(rows, symbols[i])
             totalBuy == SumSeq([i \in 1..Len(symbols) |-> contract(i).buyTotal])
             totalSell == SumSeq([i \in 1..Len(symbols) |-> contract(i).sellTotal])
             expiredLegs == SelectSeq(symbols, LAMBDA sym :
                                         Leg(Contract(rows, sym), now) = "expired")
             pendingExpiryLegs == SelectSeq(symbols, LAMBDA sym :
                                         Leg(Contract(rows, sym), now) = "pending")
             allBalancedOrExpired ==
                 \A i \in 1..Len(symbols) : Leg(contract(i), now) \in {"balanced", "expired"}
             final == allBalancedOrExpired /\ Len(pendingExpiryLegs) = 0
             pnl == PositionPnl(totalBuy, totalSell)
         IN [totalBuy |-> totalBuy, totalSell |-> totalSell,
             pnl |-> IF final THEN <<pnl>> ELSE <<>>,
             pnlPercent |-> IF final /\ totalBuy > 0 THEN <<pnl * 100, totalBuy>>
                            ELSE <<>>,
             status |-> IF final
                        THEN IF Len(expiredLegs) > 0 THEN "expired" ELSE "closed"
                        ELSE IF Len(pendingExpiryLegs) > 0 THEN "pending_expiry"
                        ELSE "open",
             legs |-> Len(rows),
             expiredLegs |-> expiredLegs,
             pendingExpiryLegs |-> pendingExpiryLegs]

\* the totals of the executions of the lists: none, 100 and 120
Totals == {0, 100, 120}

\* the rows of s with the column total: buyTotal for a buy, sellTotal for a sell
WithTotals(s, buyTotal, sellTotal) ==
    [i \in DOMAIN s |->
        [f \in (DOMAIN s[i]) \cup {"total"} |->
            IF f = "total" THEN (IF s[i].side = "buy" THEN buyTotal ELSE sellTotal)
            ELSE s[i][f]]]

\* the trades of a Position: 0..MaxStream trades of one contract, or of a
\* stock and an option
MetricsInit ==
    /\ Quiet
    /\ \E n \in 0..MaxStream :
          \E legs \in [1..n -> {"buy", "sell"} \X (1..MaxQty)],
             flagged \in 0..n, d \in Days, buyTotal \in Totals, sellTotal \in Totals :
             \/ \E c \in Contracts :
                   input = [tr |-> WithTotals(Stream(legs, 0, flagged, c[1], c[2]),
                                              buyTotal, sellTotal),
                            now |-> d]
             \/ input = [tr |-> WithTotals(MixedStream(legs, 0, flagged),
                                           buyTotal, sellTotal),
                         now |-> d]

Metrics ==
    /\ Applied
    /\ output' = calculatePositionMetrics(input.tr, input.now)

MetricsSpec == MetricsInit /\ [][Metrics]_vars

\* the quantity bought less the quantity sold of symbol
NetQty(rows, symbol) ==
    FieldSum(rows, symbol, "buy", "quantity") - FieldSum(rows, symbol, "sell", "quantity")

SymbolsOf(rows) == {rows[i].symbol : i \in 1..Len(rows)}

AllContractsBalanced(rows) == \A sym \in SymbolsOf(rows) : NetQty(rows, sym) = 0

SomeContractLeftOpen(rows) ==
    \E sym \in SymbolsOf(rows) :
       /\ NetQty(rows, sym) # 0
       /\ \A i \in 1..Len(rows) : rows[i].symbol = sym => ~rows[i].expired_worthless

\* the sums of the totals of all buys and of all sells
SideTotal(rows, side) ==
    LET sel == SelectSeq(rows, LAMBDA t : t.side = side)
    IN SumSeq([i \in 1..Len(sel) |-> sel[i].total])

\* the fraction p is the number v
PercentIs(p, v) == p # <<>> /\ p[1] = v * p[2]

\* buy 1 with total 100 then sell 1 with total 120
Scenario(rows) ==
    /\ Len(rows) = 2
    /\ rows[1].symbol = rows[2].symbol
    /\ rows[1].side = "buy" /\ rows[1].quantity = 1 /\ rows[1].total = 100
    /\ rows[2].side = "sell" /\ rows[2].quantity = 1 /\ rows[2].total = 120

\* C18 as stated: with every contract balanced the status is closed, pnl is
\* totalSell - totalBuy and pnlPercent is pnl / totalBuy * 100, whatever
\* totalBuy is; pnl is absent when a contract is unbalanced and unflagged
C18_BalancedMetrics ==
    (requests = 1 /\ Len(input.tr) > 0) =>
       LET buy == SideTotal(input.tr, "buy")
           sell == SideTotal(input.tr, "sell")
       IN /\ AllContractsBalanced(input.tr) =>
                /\ output.status = "closed"
                /\ output.pnl = <<sell - buy>>
                /\ output.pnlPercent # <<>>
                /\ output.pnlPercent[1] * buy = (sell - buy) * 100 * output.pnlPercent[2]
          /\ SomeContractLeftOpen(input.tr) => output.pnl = <<>>

\* C18: with at least one trade and every contract balanced the status is
\* closed, pnl is totalSell - totalBuy, and pnlPercent is pnl / totalBuy * 100
\* when totalBuy > 0 and absent when totalBuy is 0 (20 and 20 for buy 1 with
\* total 100 and sell 1 with total 120); pnl is absent when a contract is
\* unbalanced and unflagged; a Position without trades has status empty and
\* no pnl
C18_BalancedMetricsPositiveBuy ==
    requests = 1 =>
       LET buy == SideTotal(input.tr, "buy")
           sell == SideTotal(input.tr, "sell")
       IN /\ (Len(input.tr) > 0 /\ AllContractsBalanced(input.tr)) =>
                /\ output.status = "closed"
                /\ output.totalBuy = buy /\ output.totalSell = sell
                /\ output.pnl = <<sell - buy>>
                /\ IF buy > 0
                   THEN /\ output.pnlPercent # <<>>
                        /\ output.pnlPercent[2] # 0
                        /\ output.pnlPercent[1] * buy
                           = (sell - buy) * 100 * output.pnlPercent[2]
                   ELSE output.pnlPercent = <<>>
          /\ SomeContractLeftOpen(input.tr) => output.pnl = <<>> /\ output.pnlPercent = <<>>
          /\ Scenario(input.tr) => output.pnl = <<20>> /\ PercentIs(output.pnlPercent, 20)
          /\ Len(input.tr) = 0 => output.status = "empty" /\ output.pnl = <<>>

\* the metrics of a balanced Position of three trades with a loss were computed
C18_Witness ==
    /\ requests = 1
    /\ Len(input.tr) = 3
    /\ AllContractsBalanced(input.tr)
    /\ output.pnl # <<>>
    /\ output.pnl[1] < 0
    /\ output.pnlPercent # <<>>


(* ------------------------------------------------------------------ *)
(* The codec on symbols of bounded shape                                *)
(* ------------------------------------------------------------------ *)

\* the largest digit of the strikes
MaxDigit == 1

Underlyings == {<<"A">>, <<"S", "P", "X">>, <<"S", "P", "X", "W">>}
YearStrs == {<<"0", "0">>, <<"2", "6">>}
MonthStrs == {<<"0", "1">>, <<"0", "2">>, <<"1", "2">>}
DayStrs == {<<"0", "1">>, <<"2", "9">>, <<"3", "0">>}

\* symbols of an underlying, YYMMDD, C or P and 8 strike digits
CodecInit ==
    /\ Quiet
    /\ \E u \in Underlyings, yy \in YearStrs, mm \in MonthStrs, dd \in DayStrs,
          type \in {"C", "P"}, strike \in [1..8 -> 0..MaxDigit] :
          input = u \o yy \o mm \o dd \o <<type>>
                    \o [i \in 1..8 |-> DigitChars[strike[i] + 1]]

\* decode, then encode the decoded fields
Recode ==
    /\ Applied
    /\ Matches(input)
    /\ output' = LET parsed == parseOptionSymbol(input)
                 IN [parsed |-> parsed,
                     symbol |-> buildOccSymbol(parsed.underlying, parsed.expiration,
                                               parsed.typeShort, parsed.strike)]

CodecSpec == CodecInit /\ [][Recode]_vars

\* the underlying of the symbol does not end in W
PlainUnderlying(symbol) == symbol[LetterPrefix(symbol)] # "W"

\* the YYMMDD of the symbol is a date of the calendar
ValidDate(symbol) ==
    LET u == LetterPrefix(symbol)
        year == 2000 + 10 * DigitValue(symbol[u + 1]) + DigitValue(symbol[u + 2])
        month == 10 * DigitValue(symbol[u + 3]) + DigitValue(symbol[u + 4])
        day == 10 * DigitValue(symbol[u + 5]) + DigitValue(symbol[u + 6])
    IN month \in 1..12 /\ day \in 1..DaysInMonth(year, month)

\* C19: a symbol of an underlying not ending in W, a valid YYMMDD, C or P and
\* an 8-digit strike decodes and re-encodes to itself
C19_CodecRoundTrip ==
    (requests = 1 /\ PlainUnderlying(input) /\ ValidDate(input)) => output.symbol = input

\* a symbol whose strike has leading zeros and thousandths, of year 2000, was
\* decoded and encoded again
C19_Witness ==
    /\ requests = 1
    /\ PlainUnderlying(input) /\ ValidDate(input)
    /\ output.parsed.strike[1] = 1101
    /\ output.parsed.expiration = [year |-> 2000, month |-> 2, day |-> 29]
    /\ Len(output.parsed.underlying) = 3

\* C20: every round trip of the segmenter with a trade that has
\* expired_worthless set has status expired
C20_FlaggedTripIsExpired ==
    requests = 1 =>
       \A i \in 1..Len(output) :
          (\E t \in Range(output[i].tradeIds) : input.tr[t].expired_worthless)
             => output[i].status = "expired"


(* ------------------------------------------------------------------ *)
(* Status of the trailing round trip; order of matching                *)
(* ------------------------------------------------------------------ *)

\* the quantity bought less the quantity sold in the round trip rt
TripNet(tr, rt) ==
    CumQty(tr, rt.tradeIds, Len(rt.tradeIds), "buy")
    - CumQty(tr, rt.tradeIds, Len(rt.tradeIds), "sell")

\* rt is an unbalanced round trip of option trades with a stored expiration
\* date, none of them flagged expired_worthless
UnflaggedOptionRemainder(tr, rt) ==
    /\ TripNet(tr, rt) # 0
    /\ \A t \in Range(rt.tradeIds) :
          /\ tr[t].asset_type = "option"
          /\ tr[t].expiration_date # NoDate
          /\ ~tr[t].expired_worthless

\* C21: a trailing unbalanced round trip of unflagged option trades is
\* pending_expiry exactly when today is on or after the stored expiration
\* date, and open otherwise
C21_PendingFromExpirationDay ==
    requests = 1 =>
       \A i \in 1..Len(output) :
          UnflaggedOptionRemainder(input.tr, output[i]) =>
             output[i].status =
                IF input.now >= input.tr[output[i].tradeIds[1]].expiration_date
                THEN "pending_expiry" ELSE "open"

\* the closed matches of the output, by index
ClosedRows == {i \in 1..Len(output) : output[i].status = "closed"}

\* the quantity of lot x closed by the trades executed up to trade s
ClosedOfLot(x, s) ==
    LET sel == SelectSeq(output, LAMBDA row :
                   /\ row.status = "closed"
                   /\ row.tradeIds[1] = x
                   /\ input.tr[row.tradeIds[2]].executed_at <= input.tr[s].executed_at)
    IN SumSeq([i \in 1..Len(sel) |-> Abs(sel[i].quantity)])

\* the quantity of trade s that closed lots executed up to lot x
ClosedByTrade(s, x) ==
    LET sel == SelectSeq(output, LAMBDA row :
                   /\ row.status = "closed"
                   /\ row.tradeIds[2] = s
                   /\ input.tr[row.tradeIds[1]].executed_at <= input.tr[x].executed_at)
    IN SumSeq([i \in 1..Len(sel) |-> Abs(sel[i].quantity)])

\* the last trade of the list
LastTrade == CHOOSE t \in DOMAIN input.tr :
                \A u \in DOMAIN input.tr : input.tr[u].executed_at <= input.tr[t].executed_at

\* what trade x had left to become an open lot when it arrived
LotSize(x) == input.tr[x].quantity - ClosedByTrade(x, LastTrade)

\* the trades of the key of x on the other side, executed before x
EarlierOpposite(x) ==
    {y \in DOMAIN input.tr :
        /\ getGroupingKey(input.tr, y) = getGroupingKey(input.tr, x)
        /\ input.tr[y].side # input.tr[x].side
        /\ input.tr[y].executed_at < input.tr[x].executed_at}

\* the quantity of the open row of trade x (0 when there is none)
OpenOfLot(x) ==
    LET sel == SelectSeq(output, LAMBDA row : row.status # "closed" /\ row.tradeIds[1] = x)
    IN SumSeq([i \in 1..Len(sel) |-> Abs(sel[i].quantity)])

\* buy 2 then sell 1 of one key
BuyTwoSellOne ==
    /\ Len(input.tr) = 2
    /\ getGroupingKey(input.tr, 1) = getGroupingKey(input.tr, 2)
    /\ input.tr[1].side = "buy" /\ input.tr[1].quantity = 2
    /\ input.tr[2].side = "sell" /\ input.tr[2].quantity = 1

\* C22: every closed match joins an earlier lot with a later trade of the
\* other side and the same key; when trade s closes part of lot b every
\* older lot of b's side is used up by the trades up to s (oldest first), and
\* either b or s is used up by the match (quantity = min of the two
\* remainders); a trade leaves an open lot only when all earlier lots of the
\* other side are used up, and what it leaves is what it did not close; buy 2
\* then sell 1 gives one closed match of 1 and one open long lot of 1
C22_OldestLotFirst ==
    requests = 1 =>
       /\ \A i \in ClosedRows :
             LET b == output[i].tradeIds[1]
                 s == output[i].tradeIds[2]
             IN /\ b \in EarlierOpposite(s)
                /\ Abs(output[i].quantity) >= 1
                /\ \A o \in EarlierOpposite(s) :
                      input.tr[o].executed_at < input.tr[b].executed_at
                         => ClosedOfLot(o, s) = LotSize(o)
                /\ \/ ClosedOfLot(b, s) = LotSize(b)
                   \/ ClosedByTrade(s, b) = input.tr[s].quantity
       /\ \A x \in DOMAIN input.tr :
             /\ LotSize(x) > 0 =>
                   \A o \in EarlierOpposite(x) : ClosedOfLot(o, x) = LotSize(o)
             /\ ClosedOfLot(x, LastTrade) + OpenOfLot(x) = LotSize(x)
       /\ BuyTwoSellOne =>
             /\ Len(output) = 2
             /\ \E i, j \in 1..2 :
                   /\ output[i].status = "closed" /\ output[i].quantity = 1
                   /\ output[i].tradeIds = <<1, 2>>
                   /\ output[j].status # "closed" /\ output[j].quantity = 1
                   /\ output[j].tradeIds = <<1>>

\* a sell closed the older of two open buy lots and part of the newer one
C22_Witness ==
    /\ requests = 1
    /\ Len(input.tr) = 3
    /\ \E i, j \in ClosedRows :
          /\ output[i].tradeIds = <<1, 3>>
          /\ output[j].tradeIds = <<2, 3>>
          /\ output[j].quantity < input.tr[2].quantity

\* the rows of s with executed_at taken from times; the row numbers are the
\* order of insertion
WithTimes(s, times) == [i \in DOMAIN s |-> [s[i] EXCEPT !.executed_at = times[i]]]

\* the orders in which ORDER BY t.executed_at ASC may return the rows: SQL
\* leaves the order of rows equal on the column open
ExecutedAtOrders(tr) ==
    {p \in Permutations(DOMAIN tr) :
        \A i, j \in DOMAIN tr : i < j => tr[p[i]].executed_at <= tr[p[j]].executed_at}

\* lists of 1..MaxStream trades of one contract in which executions can share
\* their time
TiesInit ==
    /\ Quiet
    /\ \E n \in 1..MaxStream :
          \E legs \in [1..n -> {"buy", "sell"} \X (1..MaxQty)],
             times \in [1..n -> 1..2], c \in Contracts, d \in Days :
             input = [tr |-> WithTimes(Stream(legs, 0, 0, c[1], c[2]), times), now |-> d]

MatchTies ==
    /\ Applied
    /\ \E ids \in ExecutedAtOrders(input.tr) :
          output' = PositionsOf(input.tr, ids, input.now)

TiesSpec == TiesInit /\ [][MatchTies]_vars

\* no two buys and no two sells of the list share their executed_at
OnlyBuySellTies(tr) ==
    \A a, b \in DOMAIN tr :
       (a # b /\ tr[a].executed_at = tr[b].executed_at) => tr[a].side # tr[b].side

\* C23: when only a buy and a sell can share an executed_at, the rows of the
\* FIFO matcher are those obtained with the buy taken before the sell,
\* whatever the order of insertion
C23_BuyBeforeSellOnTies ==
    (requests = 1 /\ OnlyBuySellTies(input.tr)) =>
       output = PositionsOf(input.tr, OrderedTrades(input.tr, DOMAIN input.tr), input.now)

\* the option rows of s, those numbered in weekly carrying the underlying SPXW
\* instead of SPX
WithWeekly(s, weekly) ==
    [i \in DOMAIN s |-> IF i \in weekly THEN [s[i] EXCEPT !.symbol = "SPXW260107C05000000"]
                        ELSE s[i]]

\* lists of 1..MaxStream option trades on SPX and SPXW with the same
\* expiration, strike and type
WeeklyInit ==
    /\ Quiet
    /\ \E n \in 1..MaxStream :
          \E legs \in [1..n -> {"buy", "sell"} \X (1..MaxQty)],
             weekly \in SUBSET (1..n), flagged \in 0..n, d \in Days :
             input = [tr |-> WithWeekly(Stream(legs, 0, flagged, "option", ExpirationDay),
                                        weekly),
                      now |-> d]

MatchWeekly ==
    /\ Applied
    /\ output' = getPositions(input.tr, input.now)

WeeklySpec == WeeklyInit /\ [][MatchWeekly]_vars

\* C24: option trades with the raw underlyings SPX and SPXW have different
\* grouping keys, and no closed match joins a trade of one with a trade of
\* the other
C24_WeeklyKeptApart ==
    requests = 1 =>
       /\ \A i \in 1..Len(output) :
             \A a, b \in Range(output[i].tradeIds) :
                input.tr[a].symbol = input.tr[b].symbol
       /\ \A a, b \in DOMAIN input.tr :
             input.tr[a].symbol # input.tr[b].symbol
                => getGroupingKey(input.tr, a) # getGroupingKey(input.tr, b)


(* ------------------------------------------------------------------ *)
(* Ownership across import; backup restore; merge ids                  *)
(* ------------------------------------------------------------------ *)

\* C25: every trade owned by a Position before an import is owned by a
\* Position after it
C25_ImportKeepsOwnership ==
    [][ret'.op = "importCsv" =>
          \A t \in LinkedTrades(position_trades) :
             t \in DOMAIN trades' => OwnersOf(position_trades', t) # {}]_vars

Tables == <<accounts, trades, positions, position_trades>>

\* C26: importBackup is all-or-nothing: when a statement of the restore
\* fails (a trade_id listed twice, a link to a missing trade or position, a
\* row that cannot be deleted), the call ends with an error and accounts,
\* trades, positions and position_trades are exactly as before the call.
C26_RestoreAllOrNothing ==
    [][(ret'.op = "importBackup" /\ ~ret'.ok) => Tables' = Tables]_vars

\* a restore has failed in its inserts, on a database it was allowed to
\* clear and that holds trades, Positions and links
C26_Witness ==
    /\ ret.op = "importBackup" /\ ~ret.ok
    /\ \A t \in DOMAIN trades : trades[t].import_id = NoImport
    /\ DOMAIN trades # {} /\ DOMAIN positions # {} /\ position_trades # {}

\* C27: backup round trip: importBackup(exportAllData()) after any sequence
\* of operations restores the state at export time: accounts, trades (with
\* review and expired_worthless), Positions (id, name, notes, why, status) and
\* the Position id that owns each trade.
C27_BackupRoundTrip ==
    LET r == importBackup(All, exportAllData(All))
    IN /\ ~r.threw
       /\ r.all.accounts = accounts
       /\ \A t \in DOMAIN trades :
             /\ t \in DOMAIN r.all.trades
             /\ [r.all.trades[t] EXCEPT !.import_id = NoImport]
                  = [trades[t] EXCEPT !.import_id = NoImport]
       /\ DOMAIN r.all.trades = DOMAIN trades
       /\ r.all.positions = positions
       /\ r.all.position_trades = position_trades

\* where the restore is carried out, it gives back what was exported
C27_RoundTripWhenRestored ==
    LET r == importBackup(All, exportAllData(All))
    IN ~r.threw =>
          /\ r.all.accounts = accounts
          /\ r.all.trades = trades
          /\ r.all.positions = positions
          /\ r.all.position_trades = position_trades

(* ------------------------------------------------------------------ *)
(* The segmenter's output as a partition; the matcher's open lots      *)
(* ------------------------------------------------------------------ *)

\* the places <<i, j>> of the output where trade t is listed
PlacesOf(out, t) ==
    {p \in {<<i, j>> : i \in 1..Len(out), j \in 1..MaxStream + 1} :
        p[2] <= Len(out[p[1]].tradeIds) /\ out[p[1]].tradeIds[p[2]] = t}

SameContractAndAccount(tr, t, u) ==
    /\ tr[t].symbol = tr[u].symbol
    /\ tr[t].asset_type = tr[u].asset_type
    /\ tr[t].account_id = tr[u].account_id

\* C28: computeRoundTrips returns a partition of its input: every input
\* trade id is listed in exactly one emitted round trip (and once), no
\* emitted round trip is empty, and all trades of one round trip have the
\* same symbol, asset_type and account_id.
C28_RoundTripsPartition ==
    requests = 1 =>
       /\ \A t \in DOMAIN input.tr : Cardinality(PlacesOf(output, t)) = 1
       /\ \A i \in 1..Len(output) :
             /\ Len(output[i].tradeIds) > 0
             /\ Range(output[i].tradeIds) \subseteq DOMAIN input.tr
             /\ \A t, u \in Range(output[i].tradeIds) :
                   SameContractAndAccount(input.tr, t, u)

\* three trades of two accounts: a balanced round trip of two trades of one
\* account and a trailing round trip of the other account's trade
C28_Witness ==
    /\ requests = 1
    /\ Len(output) = 2
    /\ \E i, j \in 1..2 :
          /\ Len(output[i].tradeIds) = 2 /\ output[i].status = "closed"
          /\ Len(output[j].tradeIds) = 1 /\ output[j].status = "open"
          /\ ~SameContractAndAccount(input.tr, output[i].tradeIds[1],
                                     output[j].tradeIds[1])

\* the trades of grouping key k in the order the matcher reads them
GroupStream(tr, k) ==
    SelectSeq(TradesByExecutedAt(tr, DOMAIN tr), LAMBDA t : getGroupingKey(tr, t) = k)

GroupingKeys(tr) == Range(GroupingKeysInOrder(tr, TradesByExecutedAt(tr, DOMAIN tr)))

\* openBuys and openSells after the first i trades of the list s
QueuesAfter(tr, s, i) == MatchTrades(tr, SubSeq(s, 1, i), 1, <<>>, <<>>, <<>>)

HasOpenLot(queue) == \E j \in 1..Len(queue) : queue[j].remainingQty > 0

\* the rows emitted for open lots of the trades s of one key: one trade each
OpenRowsOf(out, s) ==
    {i \in 1..Len(out) : Len(out[i].tradeIds) = 1 /\ out[i].tradeIds[1] \in Range(s)}

\* C29: while the FIFO matcher processes the trades of one grouping key there
\* is never at the same time an open buy lot and an open short lot with
\* remaining quantity > 0; the rows it emits for the open lots of one key
\* are all long or all short.
C29_OneSideOpen ==
    requests = 1 =>
       \A k \in GroupingKeys(input.tr) :
          LET s == GroupStream(input.tr, k)
              open == OpenRowsOf(output, s)
          IN /\ \A i \in 0..Len(s) :
                   LET q == QueuesAfter(input.tr, s, i)
                   IN ~(HasOpenLot(q.openBuys) /\ HasOpenLot(q.openSells))
             /\ \/ \A i \in open : output[i].quantity > 0
                \/ \A i \in open : output[i].quantity < 0

\* sell 1, buy 2 and a third trade of one key: the buy closes the open short
\* lot and leaves an open long lot
C29_Witness ==
    /\ requests = 1
    /\ \E k \in GroupingKeys(input.tr) :
          LET s == GroupStream(input.tr, k)
          IN /\ Len(s) = 3
             /\ HasOpenLot(QueuesAfter(input.tr, s, 1).openSells)
             /\ HasOpenLot(QueuesAfter(input.tr, s, 2).openBuys)
             /\ ~HasOpenLot(QueuesAfter(input.tr, s, 2).openSells)
             /\ \E i \in OpenRowsOf(output, s) : output[i].quantity > 0

\* the request mergePositions(ps, name) is the one that has just been served
MergeServed(ps, name) ==
    LET r == mergePositions(DB, trades, ps, name)
    IN /\ Len(ps) >= 2
       /\ r.id = ret'.val
       /\ r.db.positions = positions'
       /\ r.db.position_trades = position_trades'

\* C30: in mergePositions the id of the newly created Position is never one
\* of the source ids, so the final deletion of the source ids never removes
\* the merged Position or its trade links.
C30_MergedPositionKept ==
    [][ret'.op = "mergePositions" =>
          /\ ret'.val \in DOMAIN positions'
          /\ \A ps \in PositionIdLists, name \in Names :
                MergeServed(ps, name) => ret'.val \notin Range(ps)]_vars

\* when every source id names a row of positions, the new id is larger than
\* each of them and the merged Position is kept
C30_KeptWhenSourcesExist ==
    [][ret'.op = "mergePositions" =>
          \A ps \in PositionIdLists, name \in Names :
             (MergeServed(ps, name) /\ Range(ps) \subseteq DOMAIN positions)
                => /\ ret'.val \notin Range(ps)
                   /\ ret'.val \in DOMAIN positions']_vars

====
